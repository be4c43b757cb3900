------------------------------ MODULE Passwords ------------------------------
(***************************************************************************)
(* Passwords of encrypted documents (src/src/encryption/algorithms.rs,     *)
(* src/src/encryption.rs, src/src/encryption/crypt_filters.rs, the         *)
(* authenticate, encrypt and decrypt calls of src/src/document.rs and      *)
(* load_encrypted_document of src/src/reader.rs).                          *)
(*                                                                         *)
(* Cryptography is symbolic: a hash is the tuple of what was hashed, two   *)
(* hashes are equal when the inputs are; a cipher undone with another key  *)
(* yields a term of its own.  A term is a tuple that begins with its tag.  *)
(* RC4 combines a text with a key stream, so that ciphertext is the text   *)
(* and the set of keys an odd number of which were applied.                *)
(***************************************************************************)
EXTENDS Integers, Sequences, FiniteSets, SequencesExt

CONSTANTS
    Chars,       \* the characters of passwords
    PdfDoc,      \* character |-> its PDFDocEncoding bytes: one or, undefined, none
    Utf8,        \* character |-> its UTF-8 bytes
    Prep,        \* character |-> what SASLprep maps it to: itself or nothing
    Prohibited,  \* characters SASLprep refuses
    Padding,     \* PAD_BYTES: its length is 32 in the code
    MaxUtf8,     \* 127 in the code: bytes of a password that count, revisions 5 and 6
    Rounds,      \* 19 in the code: applications of RC4 after the first
    Objects,     \* the objects of the document: numbers, encrypted in their order
    Strings,     \* those that are strings; the others are streams
    Requests,    \* what callers ask encrypt for, see Request
    Tries,       \* the passwords callers try
    OpLimit      \* bound: calls

ASSUME CharsAssumption ==
    /\ DOMAIN PdfDoc = Chars /\ DOMAIN Utf8 = Chars /\ DOMAIN Prep = Chars
    /\ Prohibited \subseteq Chars
    /\ MaxUtf8 \in Nat /\ Rounds \in Nat /\ OpLimit \in Nat
    /\ Objects \subseteq Nat /\ Strings \subseteq Objects

NoFilters == [name \in {} |-> "none"]

ASSUME RequestsAssumption ==
    \A r \in Requests : r.version \in {"V1", "V2", "V4", "R5", "V5"}

\* Permission bits: what callers may grant, and what correct_bits sets in any case.
\* (Bits 24 and 40 stand for bytes 3 and 4 to 7.)
Reserved == {6, 12, 24, 40}

correct_bits(bits) == bits \cup Reserved

-----------------------------------------------------------------------------
(***************************************************************************)
(* Bytes and terms.                                                        *)
(***************************************************************************)
Bytes(table, chars) == FlattenSeq([i \in DOMAIN chars |-> table[chars[i]]])

Text(bytes) == <<"text", bytes>>

\* Thirty-two bytes: the password, cut off or followed by PAD_BYTES.  What was
\* recovered from /O has that length already.
Padded(p) ==
    IF p[1] = "text" THEN <<"padded", SubSeq(p[2] \o Padding, 1, Len(Padding))>> ELSE p

Truncated(p) == IF Len(p[2]) > MaxUtf8 THEN Text(SubSeq(p[2], 1, MaxUtf8)) ELSE p

First(n, term) == <<"first", n, term>>

Rc4(keys, term) ==
    LET t == IF term[1] = "rc4" THEN term ELSE <<"rc4", {}, term>>
        left == (t[2] \ keys) \cup (keys \ t[2])
    IN  IF left = {} THEN t[3] ELSE <<"rc4", left, t[3]>>

AesSeal(key, term) == <<"aes", key, term>>

AesOpen(key, term) ==
    IF term[1] = "aes" /\ term[2] = key THEN term[3] ELSE <<"garbage", key, term>>

KeyLength(key) == key[2]   \* <<"first", length, _>> or <<"file key", length>>

\* sanitize_password: {} when SASLprep refuses it.
sanitize_password_r4(p) == {Text(Bytes(PdfDoc, p))}

sanitize_password_r6(p) ==
    IF \E i \in DOMAIN p : p[i] \in Prohibited THEN {}
    ELSE {Text(Bytes(Utf8, Bytes(Prep, p)))}

sanitize_password(revision, p) ==
    IF revision <= 4 THEN sanitize_password_r4(p) ELSE sanitize_password_r6(p)

-----------------------------------------------------------------------------
(***************************************************************************)
(* Revisions 2 to 4.  An algorithm a is a record with the fields of        *)
(* PasswordAlgorithm.                                                      *)
(***************************************************************************)
KeyBytes(a) ==
    IF a.revision < 3 THEN 5
    ELSE (IF a.length = {} THEN 40 ELSE CHOOSE n \in a.length : TRUE) \div 8

KeyTooLong(a) == KeyBytes(a) > 16

\* Fifty more rounds of MD5, over as many bytes as given.
Md5(a, n, input) ==
    IF a.revision >= 3 THEN <<"md5 51", n, input>> ELSE <<"md5", 16, input>>

\* Bytes 0 to 3 of /P count, and EncryptMetadata from revision 4 on.
compute_file_encryption_key_r4(a, p) ==
    LET n == KeyBytes(a)
        noMetadata == a.revision >= 4 /\ ~a.encryptMetadata
    IN  First(n, Md5(a, n, <<Padded(p), a.owner, {b \in a.permissions : b < 32}, noMetadata>>))

\* The keys of the first application of RC4 and of the nineteen after it.
Schedule(a, key) == {<<i, key>> : i \in 0 .. (IF a.revision >= 3 THEN Rounds ELSE 0)}

OwnerKey(a, p) == First(KeyBytes(a), Md5(a, 16, <<Padded(p)>>))

compute_hashed_owner_password_r4(a, owner, user) ==
    Rc4(Schedule(a, OwnerKey(a, owner)), Padded(user))

\* The sixteen bytes of /U that count, or all thirty-two.
compute_hashed_user_password_r4(a, p) ==
    LET key == compute_file_encryption_key_r4(a, p) IN
    IF a.revision = 2 THEN Rc4({<<0, key>>}, Text(Padding))
    ELSE Rc4(Schedule(a, key), <<"file id">>)

authenticate_user_password_r4(a, p) ==
    ~KeyTooLong(a) /\ compute_hashed_user_password_r4(a, p) = a.user

\* The padded user password that /O holds, if p is the owner password.
Recovered(a, p) == Rc4(Schedule(a, OwnerKey(a, p)), a.owner)

\* A slip: what was recovered is not authenticated.
authenticate_owner_password_r4_Unchecked(a, p) == ~KeyTooLong(a)

authenticate_owner_password_r4(a, p) ==
    ~KeyTooLong(a) /\ authenticate_user_password_r4(a, Recovered(a, p))

-----------------------------------------------------------------------------
(***************************************************************************)
(* Revisions 5 and 6.  /U and /O are a hash and two salts.                 *)
(***************************************************************************)
compute_hash(a, p, salt, userKey) == <<"hash", a.revision, p, salt, userKey>>

Entry(a, p, who, userKey) ==
    <<"entry", compute_hash(a, p, <<who, "validation">>, userKey), <<who, "validation">>, <<who, "key">>>>

Hash(entry) == entry[2]
ValidationSalt(entry) == entry[3]
KeySalt(entry) == entry[4]

NoUserKey == <<"none">>

compute_hashed_user_password_r6(a, fileKey, p) ==
    [user |-> Entry(a, p, "user", NoUserKey),
     userSealed |-> AesSeal(compute_hash(a, p, <<"user", "key">>, NoUserKey), fileKey)]

\* The owner's hashes cover /U, which is computed first.
compute_hashed_owner_password_r6(a, fileKey, p) ==
    [owner |-> Entry(a, p, "owner", a.user),
     ownerSealed |-> AesSeal(compute_hash(a, p, <<"owner", "key">>, a.user), fileKey)]

compute_permissions(a, fileKey) ==
    AesSeal(fileKey, <<"perms", a.permissions, a.encryptMetadata, "adb">>)

authenticate_user_password_r6(a, p) ==
    compute_hash(a, Truncated(p), ValidationSalt(a.user), NoUserKey) = Hash(a.user)

authenticate_owner_password_r6(a, p) ==
    compute_hash(a, Truncated(p), ValidationSalt(a.owner), a.user) = Hash(a.owner)

\* Three bytes of the permissions are compared.
validate_permissions(a, fileKey) ==
    LET t == AesOpen(fileKey, a.perms) IN
    /\ t[1] = "perms" /\ t[4] = "adb"
    /\ {b \in t[2] : b < 24} = {b \in a.permissions : b < 24}
    /\ t[3] = a.encryptMetadata

\* {} when the password is refused.
compute_file_encryption_key_r6(a, p) ==
    IF authenticate_owner_password_r6(a, p)
    THEN {AesOpen(compute_hash(a, Truncated(p), KeySalt(a.owner), a.user), a.ownerSealed)}
    ELSE LET key == AesOpen(compute_hash(a, Truncated(p), KeySalt(a.user), NoUserKey), a.userSealed)
         IN  {k \in {key} : authenticate_user_password_r6(a, p) /\ validate_permissions(a, k)}

-----------------------------------------------------------------------------
AuthenticateUser(a, p) ==
    IF a.revision <= 4 THEN authenticate_user_password_r4(a, p) ELSE authenticate_user_password_r6(a, p)

AuthenticateOwner(a, p) ==
    IF a.revision <= 4 THEN authenticate_owner_password_r4(a, p) ELSE authenticate_owner_password_r6(a, p)

\* authenticate_raw_password
Authenticates(a, p) == AuthenticateOwner(a, p) \/ AuthenticateUser(a, p)

\* A slip: whatever authenticated is used.
resolve_password_AsGiven(a, p) == p

\* What the file key of revisions 2 to 4 is derived from: the user password.
resolve_password(a, p) ==
    IF a.revision >= 5 \/ authenticate_user_password_r4(a, p) THEN p ELSE Recovered(a, p)

\* EncryptionState::decode as far as the key: {} when the password is refused.
FileKey(a, p) ==
    IF a.revision >= 5 THEN compute_file_encryption_key_r6(a, p)
    ELSE IF Authenticates(a, p)
         THEN {compute_file_encryption_key_r4(a, resolve_password(a, p))}
         ELSE {}

-----------------------------------------------------------------------------
(***************************************************************************)
(* Encryption states and dictionaries.  A request is what the variants of  *)
(* EncryptionVersion hold: [version, owner, user, permissions,             *)
(* encryptMetadata, length, fileKey, filters, streams, strings], where     *)
(* length is that of V2 and fileKey that of R5 and V5.                     *)
(***************************************************************************)
RevisionOf == [V1 |-> 2, V2 |-> 3, V4 |-> 4, R5 |-> 5, V5 |-> 6]
VersionOf == [V1 |-> 1, V2 |-> 2, V4 |-> 4, R5 |-> 5, V5 |-> 5]

\* PasswordAlgorithm, before /O and /U are computed.
Algorithm(r) ==
    [version |-> VersionOf[r.version], revision |-> RevisionOf[r.version],
     length |-> CASE r.version = "V2" -> {r.length} [] r.version = "V4" -> {128} [] OTHER -> {},
     encryptMetadata |-> r.version \in {"V1", "V2"} \/ r.encryptMetadata,
     permissions |-> correct_bits(r.permissions),
     owner |-> << >>, user |-> << >>, ownerSealed |-> << >>, userSealed |-> << >>, perms |-> << >>]

Extended(f, g) == [x \in DOMAIN f |-> IF x \in DOMAIN g THEN g[x] ELSE f[x]]

\* V1, V2 and V4
StateR4(r, a, owner, user) ==
    LET b == [a EXCEPT !.owner = compute_hashed_owner_password_r4(a, owner, user)]
        c == [b EXCEPT !.user = compute_hashed_user_password_r4(b, user)]
        ours == r.version = "V4"
    IN  [alg |-> c, key |-> compute_file_encryption_key_r4(c, user),
         filters |-> IF ours THEN r.filters ELSE NoFilters,
         streams |-> IF ours THEN r.streams ELSE "",
         strings |-> IF ours THEN r.strings ELSE ""]

\* R5 and V5
StateR6(r, a, owner, user) ==
    LET b == Extended(a, compute_hashed_user_password_r6(a, r.fileKey, user))
        c == Extended(b, compute_hashed_owner_password_r6(b, r.fileKey, owner))
    IN  [alg |-> [c EXCEPT !.perms = compute_permissions(c, r.fileKey)], key |-> r.fileKey,
         filters |-> r.filters, streams |-> r.streams, strings |-> r.strings]

\* The state for a request; {} when it is refused.
try_from(r) ==
    LET a == Algorithm(r)
        owners == sanitize_password(a.revision, r.owner)
        users == sanitize_password(a.revision, r.user)
    IN  IF a.revision >= 5
        THEN {StateR6(r, a, o, u) : o \in owners, u \in {u \in users : KeyLength(r.fileKey) = 32}}
        ELSE {StateR4(r, a, o, u) : o \in owners, u \in {u \in users : ~KeyTooLong(a)}}

\* EncryptionState::encode.  excess: bytes of /O and /U beyond their length, which
\* some writers add.
encode(s) ==
    [alg |-> s.alg, filters |-> s.filters, streams |-> s.streams, strings |-> s.strings,
     excess |-> 0]

\* Versions 0 and 3 are not to be used, others are unknown.
KnownVersions == {1, 2, 4, 5}

LengthFits(version, length) ==
    \A n \in length :
        CASE version = 1 -> n = 40
          [] version = 2 -> n % 8 = 0 /\ n \in 40 .. 128
          [] version = 4 -> n = 128
          [] version = 5 -> n = 256

DefaultLength(version, length) ==
    IF length # {} THEN length
    ELSE CASE version = 4 -> {128} [] version = 5 -> {256} [] OTHER -> {}

\* PasswordAlgorithm::try_from the dictionary: {} when it is refused.
AlgorithmOf(d) ==
    LET length == DefaultLength(d.alg.version, d.alg.length) IN
    IF /\ d.alg.version \in KnownVersions
       /\ LengthFits(d.alg.version, length)
       /\ d.alg.revision <= 4 => d.excess = 0
    THEN {[d.alg EXCEPT !.length = length]} ELSE {}

\* A slip: the filter for strings is that for streams.
Decoded_OneFilter(d, a, key) ==
    [alg |-> a, key |-> key,
     filters |-> IF a.version < 4 THEN NoFilters ELSE d.filters,
     streams |-> IF a.version < 4 THEN "" ELSE d.streams,
     strings |-> IF a.version < 4 THEN "" ELSE d.streams]

\* Document::get_crypt_filters and EncryptionState::decode
Decoded(d, a, key) ==
    [alg |-> a, key |-> key,
     filters |-> IF a.version < 4 THEN NoFilters ELSE d.filters,
     streams |-> IF a.version < 4 THEN "" ELSE d.streams,
     strings |-> IF a.version < 4 THEN "" ELSE d.strings]

-----------------------------------------------------------------------------
(***************************************************************************)
(* Crypt filters.  A name that is not in /CF means RC4.                    *)
(***************************************************************************)
MethodFor(s, name) == IF name \in DOMAIN s.filters THEN s.filters[name] ELSE "V2"

Method(s, n) == MethodFor(s, IF n \in Strings THEN s.strings ELSE s.streams)

\* compute_key
ObjectKey(method, key, n) ==
    IF method \in {"Identity", "AESV3"} THEN key
    ELSE First(IF KeyLength(key) + 5 < 16 THEN KeyLength(key) + 5 ELSE 16, <<"md5", key, n, method>>)

KeyFits(method, key, n) ==
    CASE method = "AESV2" -> KeyLength(ObjectKey(method, key, n)) = 16
      [] method = "AESV3" -> KeyLength(key) = 32
      [] OTHER -> TRUE

Fits(s, n) == KeyFits(Method(s, n), s.key, n)

Sealed(s, n, term) ==
    LET method == Method(s, n) key == ObjectKey(method, s.key, n) IN
    CASE method = "Identity" -> term
      [] method = "V2" -> Rc4({<<0, key>>}, term)
      [] OTHER -> AesSeal(key, term)

Opened(s, n, term) ==
    LET method == Method(s, n) key == ObjectKey(method, s.key, n) IN
    CASE method = "Identity" -> term
      [] method = "V2" -> Rc4({<<0, key>>}, term)
      [] OTHER -> AesOpen(key, term)

-----------------------------------------------------------------------------
VARIABLES
    contents,   \* the objects' strings and stream contents
    dict,       \* the encryption dictionary: {} or {dictionary}
    state,      \* document.encryption_state: {} or {state}
    asked,      \* (history) the request dict was made for: {} or {request}
    made,       \* (history) the state it was made from: {} or {state}
    damaged,    \* (history) the objects that calls which failed had reached
    ops

vars == <<contents, dict, state, asked, made, damaged, ops>>

Plain(n) == <<"plain", n>>

Init ==
    /\ contents = [n \in Objects |-> Plain(n)] /\ damaged = {}
    /\ dict = {} /\ state = {} /\ asked = {} /\ made = {}
    /\ ops = 0

Counted == ops < OpLimit /\ ops' = ops + 1

StateAfterEncrypt == {}

\* Document::encrypt
Encrypt(r) ==
    /\ Counted /\ dict = {}
    /\ \E s \in try_from(r) :
          /\ \A n \in Objects : Fits(s, n)
          /\ contents' = [n \in Objects |-> Sealed(s, n, contents[n])]
          /\ dict' = {encode(s)}
          /\ made' = {s}
    /\ asked' = {r} /\ state' = StateAfterEncrypt
    /\ UNCHANGED damaged

\* The key of a filter does not fit: the objects before are encrypted, and the
\* document does not say so.
EncryptFails(r) ==
    /\ Counted /\ dict = {}
    /\ \E s \in try_from(r), bad \in Objects :
          /\ ~Fits(s, bad) /\ \A n \in Objects : n < bad => Fits(s, n)
          /\ contents' = [n \in Objects |-> IF n < bad THEN Sealed(s, n, contents[n]) ELSE contents[n]]
          /\ damaged' = damaged \cup {n \in Objects : n < bad}
    /\ UNCHANGED <<dict, state, asked, made>>

\* Another writer saved the document: without the Length that versions 4 and 5
\* imply, with the one that every version may have, with more bytes in /O and /U.
Rewritten(d) ==
    {e \in {[d EXCEPT !.alg.length = l, !.excess = x] :
               l \in {d.alg.length, {}, {40}, {256}}, x \in {d.excess, 1}} :
        /\ e.alg.length # d.alg.length =>
              \/ d.alg.version >= 4 /\ e.alg.length = {}
              \/ d.alg.version = 1 /\ e.alg.length = {40}
              \/ d.alg.version = 5 /\ e.alg.length = {256}
        /\ e.excess # 0 => d.alg.revision >= 5}

Rewrite ==
    /\ Counted
    /\ \E d \in dict : dict' \in {{e} : e \in Rewritten(d) \ {d}}
    /\ UNCHANGED <<contents, state, asked, made, damaged>>

OpenWith(d, a, key) ==
    LET s == Decoded(d, a, key) IN
    /\ contents' = [n \in Objects |-> IF Fits(s, n) THEN Opened(s, n, contents[n]) ELSE contents[n]]
    /\ state' = {s}
    /\ dict' = {}
    /\ UNCHANGED <<asked, made, damaged>>

\* The keys the password in clear, or its bytes, gives.
KeysOf(d, password) ==
    UNION {FileKey(a, p) : a \in AlgorithmOf(d), p \in sanitize_password(d.alg.revision, password)}

\* Document::decrypt
Decrypt(password) ==
    /\ Counted
    /\ \E d \in dict : \E a \in AlgorithmOf(d), key \in KeysOf(d, password) : OpenWith(d, a, key)

\* authenticate_and_setup_encryption: the empty password first; the password is
\* sanitized to authenticate it, but the key is derived from its UTF-8 bytes.
Chosen(d, password) ==
    LET Accepts(q) ==
            \E a \in AlgorithmOf(d) : \E p \in sanitize_password(a.revision, q) : Authenticates(a, p)
    IN  IF Accepts(<< >>) THEN {<< >>}
        ELSE IF Accepts(password) THEN {password} ELSE {}

LoadKeysOf(d, password) ==
    UNION {FileKey(a, Text(Bytes(Utf8, q))) : a \in AlgorithmOf(d), q \in Chosen(d, password)}

\* load_encrypted_document, of a document that was saved
Load(password) ==
    /\ Counted
    /\ \E d \in dict : \E a \in AlgorithmOf(d), key \in LoadKeysOf(d, password) : OpenWith(d, a, key)

Next ==
    \/ \E r \in Requests : Encrypt(r) \/ EncryptFails(r)
    \/ Rewrite
    \/ \E p \in Tries : Decrypt(p) \/ Load(p)

Spec == Init /\ [][Next]_vars

-----------------------------------------------------------------------------
(***************************************************************************)
(* Properties.                                                             *)
(***************************************************************************)
\* What of a password counts in a document of that revision.
Significant(revision, password) ==
    {IF revision <= 4 THEN Padded(p) ELSE Truncated(p) : p \in sanitize_password(revision, password)}

Matches(r, password) ==
    \E given \in {r.owner, r.user} :
        Significant(RevisionOf[r.version], password) = Significant(RevisionOf[r.version], given)

\* What Document::encrypt accepts and a reader does not: key lengths of version 2
\* outside the standard, and passwords of which revisions 5 and 6 hash more than is
\* looked at later.
Reopenable(r) ==
    /\ r.version = "V2" => LengthFits(2, {r.length})
    /\ RevisionOf[r.version] >= 5 =>
          \A password \in {r.owner, r.user} :
              \A p \in sanitize_password(6, password) : Truncated(p) = p

\* Whoever gives the owner password or the user password, in any spelling that
\* counts as the same, gets the very key the document was encrypted with, from the
\* dictionary as lopdf or another writer saved it (resolve_password_for_key_derivation:
\* an owner's document decrypted with another key is garbage that nobody notices).
EitherOpens ==
    \A d \in dict, r \in asked, m \in made, password \in Tries :
        Reopenable(r) /\ Matches(r, password)
            /\ Significant(RevisionOf[r.version], password) # {}
        => KeysOf(d, password) = {m.key}

\* No other password gives a key, or authenticates as owner or as user.
NobodyElseOpens ==
    \A d \in dict, r \in asked, password \in Tries :
        ~Matches(r, password) =>
            /\ KeysOf(d, password) = {}
            /\ \A a \in AlgorithmOf(d) : \A p \in sanitize_password(a.revision, password) :
                  ~Authenticates(a, p)

\* A document that is open has the contents it had at first, however often it was
\* encrypted and opened again, whichever filters were used, whether it was decrypted
\* or loaded with a password.  What a call of encrypt that failed had sealed before
\* it came to the object that its filter refused stays sealed: the others do not.
ContentsRestored == dict = {} => \A n \in Objects \ damaged : contents[n] = Plain(n)

-----------------------------------------------------------------------------
(***************************************************************************)
(* What comments say, and the code does not do.                            *)
(***************************************************************************)

\* algorithms.rs, resolve_password_for_key_derivation: "The owner and user passwords
\* are independent credentials - either is sufficient to open a document".
LoadOpens ==
    \A d \in dict, password \in Tries :
        KeysOf(d, password) # {} => LoadKeysOf(d, password) # {}
=============================================================================
