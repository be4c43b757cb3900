---------------------------- MODULE PasswordsProofs ----------------------------
(***************************************************************************)
(* Proofs about Passwords: for any characters and encodings, any requests, *)
(* key lengths and crypt filters, and any number of calls, a document is   *)
(* opened by either of its passwords and by no other, and has the contents *)
(* back that it had.                                                       *)
(***************************************************************************)
EXTENDS Passwords, TLAPS

-----------------------------------------------------------------------------
(***************************************************************************)
(* Ciphers.                                                                *)
(***************************************************************************)
\* A term in which no key stream is applied to a term that has some already.
IsTerm(t) ==
    t[1] = "rc4" => t[2] # {} /\ t[3][1] # "rc4" /\ t = <<"rc4", t[2], t[3]>>

\* The same keys applied twice cancel out.
LEMMA Rc4Undone ==
    ASSUME NEW t, IsTerm(t), NEW keys, keys # {}
    PROVE  Rc4(keys, Rc4(keys, t)) = t
  <1>1. CASE t[1] # "rc4"
    <2>1. Rc4(keys, t) = <<"rc4", keys, t>>
      BY <1>1 DEF Rc4
    <2> QED
      BY <2>1 DEF Rc4
  <1>2. CASE t[1] = "rc4"
    <2> DEFINE s == t[2]
               base == t[3]
               left == (s \ keys) \cup (keys \ s)
    <2>1. t = <<"rc4", s, base>> /\ base[1] # "rc4" /\ s # {}
      BY <1>2 DEF IsTerm
    <2>2. Rc4(keys, t) = IF left = {} THEN base ELSE <<"rc4", left, base>>
      BY <1>2 DEF Rc4
    <2> HIDE DEF s, base
    <2>3. CASE left = {}
      <3>1. keys = s
        BY <2>3
      <3> QED
        BY <2>1, <2>2, <2>3, <3>1 DEF Rc4
    <2>4. CASE left # {}
      <3>1. (left \ keys) \cup (keys \ left) = s
        OBVIOUS
      <3>2. Rc4(keys, <<"rc4", left, base>>) = <<"rc4", s, base>>
        BY <2>1, <3>1 DEF Rc4
      <3> QED
        BY <2>1, <2>2, <2>4, <3>2
    <2> QED
      BY <2>3, <2>4
  <1> QED
    BY <1>1, <1>2

LEMMA Rc4Terms ==
    ASSUME NEW t, IsTerm(t), NEW keys, keys # {}
    PROVE  IsTerm(Rc4(keys, t))
  <1>1. CASE t[1] # "rc4"
    BY <1>1 DEF Rc4, IsTerm
  <1>2. CASE t[1] = "rc4"
    BY <1>2 DEF Rc4, IsTerm
  <1> QED
    BY <1>1, <1>2

\* Other keys, or other keys on top of them, do not give the text.
LEMMA Rc4Garbled ==
    ASSUME NEW t, t[1] # "rc4", NEW keys, NEW others, others # {}, keys # others
    PROVE  Rc4(keys, Rc4(others, t)) = <<"rc4", (others \ keys) \cup (keys \ others), t>>
  <1>1. Rc4(others, t) = <<"rc4", others, t>>
    BY DEF Rc4
  <1>2. (others \ keys) \cup (keys \ others) # {}
    OBVIOUS
  <1> QED
    BY <1>1, <1>2 DEF Rc4

LEMMA ScheduleOfKey ==
    ASSUME NEW a, NEW key
    PROVE  /\ <<0, key>> \in Schedule(a, key)
           /\ \A other : <<0, other>> \in Schedule(a, key) => other = key
  <1>1. 0 \in 0 .. (IF a.revision >= 3 THEN Rounds ELSE 0)
    BY CharsAssumption
  <1> QED
    BY <1>1 DEF Schedule

LEMMA PaddedOnce ==
    ASSUME NEW p, p[1] = "text"
    PROVE  /\ Padded(p)[1] = "padded"
           /\ Padded(Padded(p)) = Padded(p)
  BY DEF Padded

LEMMA TruncatedOnce ==
    ASSUME NEW p, p = Text(p[2])
    PROVE  Truncated(Truncated(p)) = Truncated(p)
  <1>1. CASE Len(p[2]) > MaxUtf8
    <2> DEFINE s == SubSeq(p[2], 1, MaxUtf8)
    <2>1. Len(s) = MaxUtf8
      BY <1>1, CharsAssumption
    <2>2. Truncated(p) = Text(s)
      BY <1>1 DEF Truncated
    <2> HIDE DEF s
    <2>3. Truncated(Text(s)) = Text(s)
      BY <2>1, CharsAssumption DEF Truncated, Text
    <2> QED
      BY <2>2, <2>3
  <1>2. CASE ~(Len(p[2]) > MaxUtf8)
    BY <1>2 DEF Truncated
  <1> QED
    BY <1>1, <1>2

\* A crypt filter takes off what it put on.
LEMMA OpenedIsPlain ==
    ASSUME NEW s, NEW n, NEW t, IsTerm(t)
    PROVE  /\ Opened(s, n, Sealed(s, n, t)) = t
           /\ IsTerm(Sealed(s, n, t))
  <1> DEFINE method == Method(s, n)
             key == ObjectKey(method, s.key, n)
  <1> HIDE DEF method, key
  <1>1. CASE method = "Identity"
    BY <1>1 DEF Opened, Sealed, method
  <1>2. CASE method = "V2"
    <2>1. Sealed(s, n, t) = Rc4({<<0, key>>}, t)
      BY <1>2 DEF Sealed, method, key
    <2>2. \A x : Opened(s, n, x) = Rc4({<<0, key>>}, x)
      BY <1>2 DEF Opened, method, key
    <2> DEFINE keys == {<<0, key>>}
    <2>3. keys # {}
      OBVIOUS
    <2> HIDE DEF keys
    <2>4. Rc4(keys, Rc4(keys, t)) = t /\ IsTerm(Rc4(keys, t))
      BY <2>3, Rc4Undone, Rc4Terms
    <2> QED
      BY <2>1, <2>2, <2>4 DEF keys
  <1>3. CASE method \notin {"Identity", "V2"}
    <2>1. Sealed(s, n, t) = AesSeal(key, t)
      BY <1>3 DEF Sealed, method, key
    <2>2. \A x : Opened(s, n, x) = AesOpen(key, x)
      BY <1>3 DEF Opened, method, key
    <2>3. IsTerm(AesSeal(key, t)) /\ AesOpen(key, AesSeal(key, t)) = t
      BY DEF IsTerm, AesSeal, AesOpen
    <2>4. Opened(s, n, Sealed(s, n, t)) = AesOpen(key, AesSeal(key, t))
      BY <2>1, <2>2
    <2> QED
      BY <2>1, <2>3, <2>4
  <1> QED
    BY <1>1, <1>2, <1>3
-----------------------------------------------------------------------------
(***************************************************************************)
(* What /O, /U and the key are computed from: the owner password o and the *)
(* user password u.                                                        *)
(***************************************************************************)
KeyedR4(a, key, o, u) ==
    /\ o[1] = "text" /\ u[1] = "text"
    /\ ~KeyTooLong(a)
    /\ a.owner = compute_hashed_owner_password_r4(a, o, u)
    /\ a.user = compute_hashed_user_password_r4(a, u)
    /\ key = compute_file_encryption_key_r4(a, u)

KeyedR6(a, key, o, u) ==
    /\ a.user = Entry(a, u, "user", NoUserKey)
    /\ a.userSealed = AesSeal(compute_hash(a, u, <<"user", "key">>, NoUserKey), key)
    /\ a.owner = Entry(a, o, "owner", a.user)
    /\ a.ownerSealed = AesSeal(compute_hash(a, o, <<"owner", "key">>, a.user), key)
    /\ a.perms = compute_permissions(a, key)

Keyed(a, key, o, u) ==
    IF a.revision <= 4 THEN KeyedR4(a, key, o, u) ELSE KeyedR6(a, key, o, u)

\* Two passwords give one key where the same of them counts.
LEMMA KeyOfPassword ==
    ASSUME NEW a, NEW p, NEW q
    PROVE  compute_file_encryption_key_r4(a, p) = compute_file_encryption_key_r4(a, q)
               <=> Padded(p) = Padded(q)
  <1> DEFINE rest == <<a.owner, {b \in a.permissions : b < 32}, a.revision >= 4 /\ ~a.encryptMetadata>>
             Input(x) == <<x, rest[1], rest[2], rest[3]>>
             n == KeyBytes(a)
  <1>1. \A x : compute_file_encryption_key_r4(a, x) = First(n, Md5(a, n, Input(Padded(x))))
    BY DEF compute_file_encryption_key_r4
  <1> HIDE DEF rest, n
  <1>2. \A x, y : Input(x) = Input(y) <=> x = y
    OBVIOUS
  <1> HIDE DEF Input
  <1>3. \A x, y : First(n, Md5(a, n, x)) = First(n, Md5(a, n, y)) <=> x = y
    BY DEF First, Md5
  <1> QED
    BY <1>1, <1>2, <1>3

LEMMA UserOpensR4 ==
    ASSUME NEW a, NEW key, NEW o, NEW u, KeyedR4(a, key, o, u), NEW p
    PROVE  /\ authenticate_user_password_r4(a, p) <=> Padded(p) = Padded(u)
           /\ authenticate_user_password_r4(a, p) => compute_file_encryption_key_r4(a, p) = key
  <1> DEFINE k == compute_file_encryption_key_r4(a, p)
  <1>1. authenticate_user_password_r4(a, p) <=>
            compute_hashed_user_password_r4(a, p) = compute_hashed_user_password_r4(a, u)
    BY DEF KeyedR4, authenticate_user_password_r4
  <1>2. key = compute_file_encryption_key_r4(a, u)
    BY DEF KeyedR4
  <1>3. k = key <=> Padded(p) = Padded(u)
    BY <1>2, KeyOfPassword
  <1>4. compute_hashed_user_password_r4(a, p) = compute_hashed_user_password_r4(a, u) <=> k = key
    <2> HIDE DEF k
    <2>1. CASE a.revision = 2
      <3> DEFINE S(x) == {<<0, x>>}
                 base == Text(Padding)
      <3>1. S(k) = S(key) <=> k = key
        <4>1. <<0, k>> = <<0, key>> <=> k = key
          OBVIOUS
        <4>2. \A x, y : {x} = {y} <=> x = y
          OBVIOUS
        <4> QED
          BY <4>1, <4>2
      <3>2. S(k) # {} /\ S(key) # {} /\ base[1] # "rc4"
        BY DEF Text
      <3> HIDE DEF S, base
      <3>3. Rc4(S(k), base) = <<"rc4", S(k), base>> /\ Rc4(S(key), base) = <<"rc4", S(key), base>>
        BY <3>2 DEF Rc4
      <3>4. Rc4(S(k), base) = Rc4(S(key), base) <=> k = key
        BY <3>1, <3>3
      <3> QED
        BY <1>2, <2>1, <3>4 DEF compute_hashed_user_password_r4, k, S, base
    <2>2. CASE a.revision # 2
      <3> DEFINE base == <<"file id">>
      <3>1. Schedule(a, k) = Schedule(a, key) <=> k = key
        BY ScheduleOfKey
      <3>2. Schedule(a, k) # {} /\ Schedule(a, key) # {} /\ base[1] # "rc4"
        BY ScheduleOfKey
      <3> HIDE DEF base
      <3>3. /\ Rc4(Schedule(a, k), base) = <<"rc4", Schedule(a, k), base>>
            /\ Rc4(Schedule(a, key), base) = <<"rc4", Schedule(a, key), base>>
        BY <3>2 DEF Rc4
      <3>4. Rc4(Schedule(a, k), base) = Rc4(Schedule(a, key), base) <=> k = key
        BY <3>1, <3>3
      <3> QED
        BY <1>2, <2>2, <3>4 DEF compute_hashed_user_password_r4, k, base
    <2> QED
      BY <2>1, <2>2
  <1> QED
    BY <1>1, <1>3, <1>4

LEMMA OwnerRecoversR4 ==
    ASSUME NEW a, NEW key, NEW o, NEW u, KeyedR4(a, key, o, u), NEW p
    PROVE  Padded(Recovered(a, p)) = Padded(u) <=> Padded(p) = Padded(o)
  <1> DEFINE k == OwnerKey(a, p)
             l == OwnerKey(a, o)
             t == Padded(u)
  <1>1. k = l <=> Padded(p) = Padded(o)
    BY DEF OwnerKey, First, Md5
  <1>2. t[1] = "padded" /\ Padded(t) = t
    BY PaddedOnce DEF KeyedR4
  <1>3. Recovered(a, p) = Rc4(Schedule(a, k), Rc4(Schedule(a, l), t))
    BY DEF Recovered, KeyedR4, compute_hashed_owner_password_r4
  <1> HIDE DEF k, l, t
  <1>4. <<0, k>> \in Schedule(a, k) /\ <<0, l>> \in Schedule(a, l)
    BY ScheduleOfKey
  <1>5. CASE k = l
    <2>1. Recovered(a, p) = t
      BY <1>2, <1>3, <1>4, <1>5, Rc4Undone DEF IsTerm
    <2> QED
      BY <1>1, <1>2, <1>5, <2>1 DEF t
  <1>6. CASE k # l
    <2>1. Schedule(a, k) # Schedule(a, l)
      BY <1>4, <1>6, ScheduleOfKey
    <2> DEFINE left == (Schedule(a, l) \ Schedule(a, k)) \cup (Schedule(a, k) \ Schedule(a, l))
    <2>2. Recovered(a, p) = <<"rc4", left, t>>
      BY <1>2, <1>3, <1>4, <2>1, Rc4Garbled
    <2> HIDE DEF left
    <2>3. Padded(Recovered(a, p)) = <<"rc4", left, t>>
      BY <2>2 DEF Padded
    <2>4. <<"rc4", left, t>> # t
      BY <1>2
    <2> QED
      BY <1>1, <1>6, <2>3, <2>4 DEF t
  <1> QED
    BY <1>5, <1>6

LEMMA WhoOpensR4 ==
    ASSUME NEW a, a.revision \in {2, 3, 4}, NEW key, NEW o, NEW u, KeyedR4(a, key, o, u), NEW p
    PROVE  /\ Authenticates(a, p) <=> Padded(p) \in {Padded(o), Padded(u)}
           /\ FileKey(a, p) = IF Authenticates(a, p) THEN {key} ELSE {}
  <1>1. /\ authenticate_user_password_r4(a, p) <=> Padded(p) = Padded(u)
        /\ authenticate_user_password_r4(a, p) => compute_file_encryption_key_r4(a, p) = key
    BY UserOpensR4
  <1> DEFINE q == Recovered(a, p)
  <1>2. /\ authenticate_user_password_r4(a, q) <=> Padded(q) = Padded(u)
        /\ authenticate_user_password_r4(a, q) => compute_file_encryption_key_r4(a, q) = key
    BY UserOpensR4
  <1>3. Padded(q) = Padded(u) <=> Padded(p) = Padded(o)
    BY OwnerRecoversR4
  <1>4. authenticate_owner_password_r4(a, p) <=> Padded(p) = Padded(o)
    BY <1>2, <1>3 DEF KeyedR4, authenticate_owner_password_r4
  <1>5. Authenticates(a, p) <=> Padded(p) = Padded(o) \/ Padded(p) = Padded(u)
    BY <1>1, <1>4 DEF Authenticates, AuthenticateOwner, AuthenticateUser
  <1> HIDE DEF q
  <1>6. ASSUME Authenticates(a, p)
        PROVE  compute_file_encryption_key_r4(a, resolve_password(a, p)) = key
    BY <1>1, <1>2, <1>3, <1>5, <1>6 DEF resolve_password, q
  <1> QED
    BY <1>5, <1>6 DEF FileKey

LEMMA WhoOpensR6 ==
    ASSUME NEW a, a.revision \in {5, 6}, NEW key, NEW o, NEW u, KeyedR6(a, key, o, u), NEW p
    PROVE  /\ Authenticates(a, p) <=> Truncated(p) \in {o, u}
           /\ FileKey(a, p) = IF Authenticates(a, p) THEN {key} ELSE {}
  <1> DEFINE t == Truncated(p)
  <1>1. authenticate_user_password_r6(a, p) <=> t = u
    BY DEF KeyedR6, authenticate_user_password_r6, Entry, Hash, ValidationSalt, compute_hash
  <1>2. authenticate_owner_password_r6(a, p) <=> t = o
    BY DEF KeyedR6, authenticate_owner_password_r6, Entry, Hash, ValidationSalt, compute_hash
  <1>3. Authenticates(a, p) <=> t = o \/ t = u
    BY <1>1, <1>2 DEF Authenticates, AuthenticateOwner, AuthenticateUser
  <1> HIDE DEF t
  <1>4. KeySalt(a.owner) = <<"owner", "key">> /\ KeySalt(a.user) = <<"user", "key">>
    BY DEF KeyedR6, Entry, KeySalt
  <1>5. \A h, x : AesOpen(h, AesSeal(h, x)) = x
    BY DEF AesOpen, AesSeal
  <1>6. validate_permissions(a, key)
    BY <1>5 DEF KeyedR6, compute_permissions, validate_permissions
  <1>7. t = o => AesOpen(compute_hash(a, t, KeySalt(a.owner), a.user), a.ownerSealed) = key
    BY <1>4, <1>5 DEF KeyedR6
  <1>8. t = u => AesOpen(compute_hash(a, t, KeySalt(a.user), NoUserKey), a.userSealed) = key
    BY <1>4, <1>5 DEF KeyedR6
  <1>9. compute_file_encryption_key_r6(a, p) = IF t = o \/ t = u THEN {key} ELSE {}
    BY <1>1, <1>2, <1>6, <1>7, <1>8 DEF compute_file_encryption_key_r6, t
  <1>10. FileKey(a, p) = compute_file_encryption_key_r6(a, p)
    BY DEF FileKey
  <1> QED
    BY <1>3, <1>9, <1>10 DEF t
-----------------------------------------------------------------------------
(***************************************************************************)
(* A state that encrypt made, and the dictionary written for it by lopdf   *)
(* or by another writer.                                                   *)
(***************************************************************************)
MadeFor(r, m, o, u) ==
    /\ m.alg.version = VersionOf[r.version] /\ m.alg.revision = RevisionOf[r.version]
    /\ m.alg.length = Algorithm(r).length /\ "length" \in DOMAIN m.alg
    /\ m.alg = [f \in DOMAIN m.alg |-> m.alg[f]]
    /\ o \in sanitize_password(RevisionOf[r.version], r.owner)
    /\ u \in sanitize_password(RevisionOf[r.version], r.user)
    /\ Keyed(m.alg, m.key, o, u)
    /\ m.alg.version < 4 => m.filters = NoFilters /\ m.streams = "" /\ m.strings = ""

WrittenFor(d, m) ==
    /\ d = [alg |-> [m.alg EXCEPT !.length = d.alg.length], filters |-> m.filters,
            streams |-> m.streams, strings |-> m.strings, excess |-> d.excess]
    /\ m.alg.revision <= 4 => d.excess = 0
    /\ \/ d.alg.length = m.alg.length
       \/ m.alg.version >= 4 /\ d.alg.length = {}
       \/ m.alg.version = 1 /\ d.alg.length = {40}
       \/ m.alg.version = 5 /\ d.alg.length = {256}

\* A document that is encrypted is so with the state its dictionary was made from,
\* object by object; one that is not has its contents.
PasswordsInv ==
    /\ dict = {} => \A n \in Objects \ damaged : contents[n] = Plain(n)
    /\ dict # {} =>
          \E r \in Requests : \E m \in try_from(r) :
             /\ asked = {r} /\ made = {m}
             /\ \E d \in dict : dict = {d} /\ WrittenFor(d, m)
             /\ \A n \in Objects \ damaged : Fits(m, n) /\ contents[n] = Sealed(m, n, Plain(n))

LEMMA Versions ==
    ASSUME NEW r \in Requests
    PROVE  \/ r.version = "V1" /\ VersionOf[r.version] = 1 /\ RevisionOf[r.version] = 2
           \/ r.version = "V2" /\ VersionOf[r.version] = 2 /\ RevisionOf[r.version] = 3
           \/ r.version = "V4" /\ VersionOf[r.version] = 4 /\ RevisionOf[r.version] = 4
           \/ r.version = "R5" /\ VersionOf[r.version] = 5 /\ RevisionOf[r.version] = 5
           \/ r.version = "V5" /\ VersionOf[r.version] = 5 /\ RevisionOf[r.version] = 6
  BY RequestsAssumption DEF VersionOf, RevisionOf

\* The key and the values of a dictionary do not depend on fields computed later, nor
\* on a Length that is implied.
SameAlgorithm(a, b) ==
    /\ a.revision = b.revision /\ a.encryptMetadata = b.encryptMetadata
    /\ a.permissions = b.permissions
    /\ a.revision \in {3, 4} => a.length = b.length
    /\ a.owner = b.owner /\ a.user = b.user
    /\ a.ownerSealed = b.ownerSealed /\ a.userSealed = b.userSealed /\ a.perms = b.perms

LEMMA SameKeys ==
    ASSUME NEW a, NEW b, SameAlgorithm(a, b), b.revision \in {2, 3, 4, 5, 6},
           NEW key, NEW o, NEW u, Keyed(b, key, o, u)
    PROVE  Keyed(a, key, o, u)
  <1>1. CASE b.revision \in {2, 3, 4}
    <2>1. KeyBytes(a) = KeyBytes(b)
      <3>1. CASE b.revision = 2
        BY <3>1 DEF SameAlgorithm, KeyBytes
      <3>2. CASE b.revision \in {3, 4}
        <4>1. a.revision = b.revision /\ a.length = b.length
          BY <3>2 DEF SameAlgorithm
        <4> QED
          BY <4>1 DEF KeyBytes
      <3> QED
        BY <1>1, <3>1, <3>2
    <2>2. KeyTooLong(a) <=> KeyTooLong(b)
      BY <2>1 DEF KeyTooLong
    <2>3. \A n, x : Md5(a, n, x) = Md5(b, n, x)
      BY DEF Md5, SameAlgorithm
    <2>4. \A x : Schedule(a, x) = Schedule(b, x)
      BY DEF Schedule, SameAlgorithm
    <2>5. \A p : compute_file_encryption_key_r4(a, p) = compute_file_encryption_key_r4(b, p)
      BY <2>1, <2>3 DEF compute_file_encryption_key_r4, SameAlgorithm
    <2>6. \A p : OwnerKey(a, p) = OwnerKey(b, p)
      BY <2>1, <2>3 DEF OwnerKey
    <2>7. compute_hashed_owner_password_r4(a, o, u) = compute_hashed_owner_password_r4(b, o, u)
      BY <2>4, <2>6 DEF compute_hashed_owner_password_r4
    <2>8. compute_hashed_user_password_r4(a, u) = compute_hashed_user_password_r4(b, u)
      BY <2>4, <2>5 DEF compute_hashed_user_password_r4, SameAlgorithm
    <2> QED
      BY <1>1, <2>2, <2>5, <2>7, <2>8 DEF Keyed, KeyedR4, SameAlgorithm
  <1>2. CASE b.revision \in {5, 6}
    BY <1>2 DEF Keyed, KeyedR6, SameAlgorithm, Entry, compute_hash, compute_permissions
  <1> QED
    BY <1>1, <1>2

\* try_from makes what it says.
LEMMA StatesAreMade ==
    ASSUME NEW r \in Requests, NEW m \in try_from(r)
    PROVE  \E o, u : MadeFor(r, m, o, u)
  <1> DEFINE a == Algorithm(r)
  <1>1. /\ a.version = VersionOf[r.version] /\ a.revision = RevisionOf[r.version]
        /\ DOMAIN a = {"version", "revision", "length", "encryptMetadata", "permissions",
                       "owner", "user", "ownerSealed", "userSealed", "perms"}
    BY DEF Algorithm
  <1> HIDE DEF a
  <1>2. CASE a.revision <= 4
    <2>1. PICK o \in sanitize_password(a.revision, r.owner),
               u \in sanitize_password(a.revision, r.user) :
            ~KeyTooLong(a) /\ m = StateR4(r, a, o, u)
      BY <1>1, <1>2, Versions DEF try_from, a
    <2>2. o[1] = "text" /\ u[1] = "text"
      BY <1>2, <2>1 DEF sanitize_password, sanitize_password_r4, Text
    <2> DEFINE b == [a EXCEPT !.owner = compute_hashed_owner_password_r4(a, o, u)]
               c == [b EXCEPT !.user = compute_hashed_user_password_r4(b, u)]
    <2>3. /\ m.alg = c /\ m.key = compute_file_encryption_key_r4(c, u)
          /\ r.version # "V4" => m.filters = NoFilters /\ m.streams = "" /\ m.strings = ""
      BY <2>1 DEF StateR4
    <2>4. /\ \A f \in {"version", "revision", "length", "encryptMetadata", "permissions"} :
                 b[f] = a[f] /\ c[f] = a[f]
          /\ b.owner = compute_hashed_owner_password_r4(a, o, u) /\ c.owner = b.owner
          /\ c.user = compute_hashed_user_password_r4(b, u)
          /\ DOMAIN c = DOMAIN a /\ c = [f \in DOMAIN c |-> c[f]]
      BY <1>1
    <2> HIDE DEF b, c
    <2>a. /\ b.revision = a.revision /\ b.length = a.length /\ b.owner = c.owner
          /\ b.encryptMetadata = c.encryptMetadata /\ b.permissions = c.permissions
          /\ c.revision = a.revision /\ c.length = a.length /\ c.version = a.version
      BY <2>4
    <2>5. /\ KeyBytes(b) = KeyBytes(a) /\ KeyBytes(c) = KeyBytes(a)
          /\ \A n, x : Md5(b, n, x) = Md5(a, n, x) /\ Md5(c, n, x) = Md5(a, n, x)
          /\ \A x : Schedule(b, x) = Schedule(a, x) /\ Schedule(c, x) = Schedule(a, x)
      <3>1. KeyBytes(b) = KeyBytes(a) /\ KeyBytes(c) = KeyBytes(a)
        BY <2>a DEF KeyBytes
      <3>2. \A n, x : Md5(b, n, x) = Md5(a, n, x) /\ Md5(c, n, x) = Md5(a, n, x)
        BY <2>a DEF Md5
      <3>3. \A x : Schedule(b, x) = Schedule(a, x) /\ Schedule(c, x) = Schedule(a, x)
        BY <2>a DEF Schedule
      <3> QED
        BY <3>1, <3>2, <3>3
    <2>6. compute_file_encryption_key_r4(b, u) = compute_file_encryption_key_r4(c, u)
      BY <2>a, <2>5 DEF compute_file_encryption_key_r4
    <2>7. compute_hashed_user_password_r4(b, u) = compute_hashed_user_password_r4(c, u)
      BY <2>a, <2>5, <2>6 DEF compute_hashed_user_password_r4
    <2>8. OwnerKey(c, o) = OwnerKey(a, o)
      BY <2>5 DEF OwnerKey
    <2>9. compute_hashed_owner_password_r4(a, o, u) = compute_hashed_owner_password_r4(c, o, u)
      BY <2>5, <2>8 DEF compute_hashed_owner_password_r4
    <2>10. KeyedR4(c, m.key, o, u)
      BY <2>1, <2>2, <2>3, <2>4, <2>5, <2>7, <2>9 DEF KeyedR4, KeyTooLong
    <2>11. Keyed(m.alg, m.key, o, u)
      BY <1>2, <2>3, <2>4, <2>10 DEF Keyed
    <2>12. m.alg.version < 4 => r.version # "V4"
      <3>1. m.alg.version = VersionOf[r.version]
        BY <1>1, <2>3, <2>a
      <3> QED
        BY <3>1, Versions
    <2> QED
      BY <1>1, <2>1, <2>3, <2>4, <2>a, <2>11, <2>12 DEF MadeFor, a
  <1>3. CASE ~(a.revision <= 4)
    <2>1. PICK o \in sanitize_password(a.revision, r.owner),
               u \in sanitize_password(a.revision, r.user) : m = StateR6(r, a, o, u)
      BY <1>1, <1>3, Versions DEF try_from, a
    <2> DEFINE key == r.fileKey
               b == Extended(a, compute_hashed_user_password_r6(a, key, u))
               c == Extended(b, compute_hashed_owner_password_r6(b, key, o))
    <2>2. m.alg = [c EXCEPT !.perms = compute_permissions(c, key)] /\ m.key = key
      BY <2>1 DEF StateR6
    <2>3. /\ DOMAIN b = DOMAIN a
          /\ \A f \in DOMAIN a \ {"user", "userSealed"} : b[f] = a[f]
          /\ b.user = Entry(a, u, "user", NoUserKey)
          /\ b.userSealed = AesSeal(compute_hash(a, u, <<"user", "key">>, NoUserKey), key)
      BY <1>1 DEF Extended, compute_hashed_user_password_r6
    <2> HIDE DEF b
    <2>4. /\ DOMAIN c = DOMAIN a
          /\ \A f \in DOMAIN a \ {"owner", "ownerSealed"} : c[f] = b[f]
          /\ c.owner = Entry(b, o, "owner", b.user)
          /\ c.ownerSealed = AesSeal(compute_hash(b, o, <<"owner", "key">>, b.user), key)
      BY <1>1, <2>3 DEF Extended, compute_hashed_owner_password_r6
    <2> HIDE DEF c
    <2>5. /\ DOMAIN m.alg = DOMAIN a /\ m.alg.perms = compute_permissions(c, key)
          /\ m.alg = [f \in DOMAIN m.alg |-> m.alg[f]]
          /\ \A f \in DOMAIN a \ {"perms"} : m.alg[f] = c[f]
      BY <1>1, <2>2, <2>4
    <2> DEFINE d == m.alg
    <2>6. /\ d.version = a.version /\ d.revision = a.revision /\ d.length = a.length
          /\ b.revision = a.revision /\ c.revision = a.revision
          /\ d.permissions = c.permissions /\ d.encryptMetadata = c.encryptMetadata
          /\ d.user = Entry(a, u, "user", NoUserKey) /\ b.user = d.user
          /\ d.userSealed = AesSeal(compute_hash(a, u, <<"user", "key">>, NoUserKey), key)
          /\ d.owner = Entry(b, o, "owner", d.user)
          /\ d.ownerSealed = AesSeal(compute_hash(b, o, <<"owner", "key">>, d.user), key)
      BY <1>1, <2>3, <2>4, <2>5
    <2> HIDE DEF d
    <2>7. KeyedR6(d, key, o, u)
      BY <2>5, <2>6 DEF KeyedR6, Entry, compute_hash, compute_permissions, d
    <2>8. Keyed(m.alg, m.key, o, u)
      BY <1>3, <2>2, <2>6, <2>7 DEF Keyed, d
    <2>9. ~(d.version < 4)
      BY <1>1, <1>3, <2>6, Versions
    <2> QED
      BY <1>1, <2>1, <2>5, <2>6, <2>8, <2>9 DEF MadeFor, a, d
  <1> QED
    BY <1>2, <1>3

\* However the dictionary was written, what is read of it is what it was made of, ...
LEMMA ReadAlgorithm ==
    ASSUME NEW r \in Requests, NEW m, NEW o, NEW u, MadeFor(r, m, o, u),
           NEW d, WrittenFor(d, m), NEW a \in AlgorithmOf(d)
    PROVE  /\ SameAlgorithm(a, m.alg) /\ a.version = m.alg.version
           /\ a.revision = RevisionOf[r.version] /\ a.revision = d.alg.revision
           /\ Keyed(a, m.key, o, u)
  <1> DEFINE length == DefaultLength(d.alg.version, d.alg.length)
             l == d.alg.length
  <1>1. a = [d.alg EXCEPT !.length = length]
    BY DEF AlgorithmOf
  <1>2. d.alg = [m.alg EXCEPT !.length = l]
    BY DEF WrittenFor
  <1> HIDE DEF l
  <1>3. /\ d.alg.version = m.alg.version /\ d.alg.revision = m.alg.revision
        /\ "length" \in DOMAIN d.alg
    <2>1. DOMAIN d.alg = DOMAIN m.alg
      BY <1>2
    <2>2. d.alg.version = m.alg.version
      BY <1>2
    <2>3. d.alg.revision = m.alg.revision
      BY <1>2
    <2> QED
      BY <2>1, <2>2, <2>3 DEF MadeFor
  <1> HIDE DEF length
  <1>4. /\ a.version = m.alg.version /\ a.revision = m.alg.revision /\ a.length = length
        /\ a.encryptMetadata = m.alg.encryptMetadata /\ a.permissions = m.alg.permissions
        /\ a.owner = m.alg.owner /\ a.user = m.alg.user
        /\ a.ownerSealed = m.alg.ownerSealed /\ a.userSealed = m.alg.userSealed
        /\ a.perms = m.alg.perms
    BY <1>1, <1>2, <1>3
  <1>5. m.alg.version = VersionOf[r.version] /\ m.alg.revision = RevisionOf[r.version]
    BY DEF MadeFor
  <1>6. ASSUME m.alg.revision \in {3, 4}
        PROVE  length = m.alg.length
    <2>1. CASE r.version = "V2"
      <3>1. m.alg.length = {r.length} /\ m.alg.version = 2
        BY <1>5, <2>1, Versions DEF MadeFor, Algorithm
      <3>2. l = m.alg.length
        BY <3>1 DEF WrittenFor, l
      <3> QED
        BY <3>1, <3>2 DEF length, DefaultLength, l
    <2>2. CASE r.version = "V4"
      <3>1. m.alg.length = {128} /\ m.alg.version = 4
        BY <1>5, <2>2, Versions DEF MadeFor, Algorithm
      <3>2. l \in {{128}, {}}
        BY <3>1 DEF WrittenFor, l
      <3> QED
        BY <1>3, <3>1, <3>2 DEF length, DefaultLength, l
    <2> QED
      BY <1>5, <1>6, <2>1, <2>2, Versions
  <1>7. SameAlgorithm(a, m.alg)
    BY <1>4, <1>6 DEF SameAlgorithm
  <1>8. Keyed(a, m.key, o, u)
    BY <1>5, <1>7, SameKeys, Versions DEF MadeFor
  <1> QED
    BY <1>3, <1>4, <1>5, <1>7, <1>8

\* ... and a password that is accepted gives its key.
LEMMA OnlyItsKey ==
    ASSUME NEW r \in Requests, NEW m \in try_from(r), NEW d, WrittenFor(d, m),
           NEW a \in AlgorithmOf(d), NEW p
    PROVE  FileKey(a, p) \subseteq {m.key}
  <1>1. PICK o, u : MadeFor(r, m, o, u)
    BY StatesAreMade
  <1>2. Keyed(a, m.key, o, u) /\ a.revision = RevisionOf[r.version]
    BY <1>1, ReadAlgorithm
  <1>3. a.revision \in {2, 3, 4} \/ a.revision \in {5, 6}
    BY <1>2, Versions
  <1>4. CASE a.revision \in {2, 3, 4}
    BY <1>2, <1>4, WhoOpensR4 DEF Keyed
  <1>5. CASE a.revision \in {5, 6}
    BY <1>2, <1>5, WhoOpensR6 DEF Keyed
  <1> QED
    BY <1>3, <1>4, <1>5
-----------------------------------------------------------------------------
(***************************************************************************)
(* Contents.                                                               *)
(***************************************************************************)
\* What is read of the dictionary opens objects as what it was made of does.
LEMMA SameFilters ==
    ASSUME NEW r \in Requests, NEW m \in try_from(r), NEW d, WrittenFor(d, m),
           NEW a \in AlgorithmOf(d), NEW n, NEW t
    PROVE  /\ Fits(Decoded(d, a, m.key), n) <=> Fits(m, n)
           /\ Opened(Decoded(d, a, m.key), n, t) = Opened(m, n, t)
  <1> DEFINE s == Decoded(d, a, m.key)
  <1>1. PICK o, u : MadeFor(r, m, o, u)
    BY StatesAreMade
  <1>2. a.version = m.alg.version
    BY <1>1, ReadAlgorithm
  <1>3. d.filters = m.filters /\ d.streams = m.streams /\ d.strings = m.strings
    BY DEF WrittenFor
  <1>4. m.alg.version < 4 => m.filters = NoFilters /\ m.streams = "" /\ m.strings = ""
    BY <1>1 DEF MadeFor
  <1>5. s.key = m.key /\ s.filters = m.filters /\ s.streams = m.streams /\ s.strings = m.strings
    BY <1>2, <1>3, <1>4 DEF Decoded
  <1> HIDE DEF s
  <1>6. Method(s, n) = Method(m, n)
    BY <1>5 DEF Method, MethodFor
  <1>7. Fits(s, n) <=> Fits(m, n)
    BY <1>5, <1>6 DEF Fits
  <1>8. Opened(s, n, t) = Opened(m, n, t)
    BY <1>5, <1>6 DEF Opened
  <1> QED
    BY <1>7, <1>8 DEF s

LEMMA StartsUnencrypted == Init => PasswordsInv
  BY DEF Init, PasswordsInv

LEMMA EncryptKeeps ==
    ASSUME PasswordsInv, NEW r \in Requests, Encrypt(r)
    PROVE  PasswordsInv'
  <1>1. PICK s \in try_from(r) :
          /\ \A n \in Objects : Fits(s, n)
          /\ contents' = [n \in Objects |-> Sealed(s, n, contents[n])]
          /\ dict' = {encode(s)} /\ made' = {s}
    BY DEF Encrypt
  <1>2. asked' = {r} /\ damaged' = damaged /\ dict = {}
    BY DEF Encrypt
  <1>3. PICK o, u : MadeFor(r, s, o, u)
    BY StatesAreMade
  <1>4. WrittenFor(encode(s), s)
    <2>1. s.alg = [s.alg EXCEPT !.length = s.alg.length]
      BY <1>3 DEF MadeFor
    <2> QED
      BY <2>1 DEF WrittenFor, encode
  <1>5. \A n \in Objects \ damaged : Fits(s, n) /\ contents'[n] = Sealed(s, n, Plain(n))
    BY <1>1, <1>2 DEF PasswordsInv
  <1> QED
    BY <1>1, <1>2, <1>4, <1>5 DEF PasswordsInv

LEMMA EncryptFailsKeeps ==
    ASSUME PasswordsInv, NEW r \in Requests, EncryptFails(r)
    PROVE  PasswordsInv'
  <1>1. dict = {} /\ dict' = {}
    BY DEF EncryptFails
  <1>2. \A n \in Objects \ damaged' : n \notin damaged /\ contents'[n] = contents[n]
    BY DEF EncryptFails
  <1> QED
    BY <1>1, <1>2 DEF PasswordsInv

LEMMA RewriteKeeps ==
    ASSUME PasswordsInv, Rewrite
    PROVE  PasswordsInv'
  <1>1. PICK d \in dict : \E e \in Rewritten(d) : dict' = {e}
    BY DEF Rewrite
  <1>2. PICK e \in Rewritten(d) : dict' = {e}
    BY <1>1
  <1>3. UNCHANGED <<contents, asked, made, damaged>>
    BY DEF Rewrite
  <1>4. PICK r \in Requests : \E m \in try_from(r) :
          /\ asked = {r} /\ made = {m} /\ WrittenFor(d, m)
          /\ \A n \in Objects \ damaged : Fits(m, n) /\ contents[n] = Sealed(m, n, Plain(n))
    BY <1>1 DEF PasswordsInv
  <1>m. PICK m \in try_from(r) :
          /\ asked = {r} /\ made = {m} /\ WrittenFor(d, m)
          /\ \A n \in Objects \ damaged : Fits(m, n) /\ contents[n] = Sealed(m, n, Plain(n))
    BY <1>4
  <1>5. WrittenFor(e, m)
    <2>1. PICK o, u : MadeFor(r, m, o, u)
      BY StatesAreMade
    <2>2. PICK l, x :
            /\ e = [d EXCEPT !.alg.length = l, !.excess = x]
            /\ e.alg.length # d.alg.length =>
                  \/ d.alg.version >= 4 /\ e.alg.length = {}
                  \/ d.alg.version = 1 /\ e.alg.length = {40}
                  \/ d.alg.version = 5 /\ e.alg.length = {256}
            /\ e.excess # 0 => d.alg.revision >= 5
      <3> DEFINE L == {d.alg.length, {}, {40}, {256}}
                 X == {d.excess, 1}
                 E(l, x) == [d EXCEPT !.alg.length = l, !.excess = x]
                 Allowed ==
                    /\ e.alg.length # d.alg.length =>
                          \/ d.alg.version >= 4 /\ e.alg.length = {}
                          \/ d.alg.version = 1 /\ e.alg.length = {40}
                          \/ d.alg.version = 5 /\ e.alg.length = {256}
                    /\ e.excess # 0 => d.alg.revision >= 5
      <3>1. e \in {E(l, x) : l \in L, x \in X} /\ Allowed
        BY DEF Rewritten
      <3> HIDE DEF L, X, E, Allowed
      <3>2. PICK l \in L, x \in X : e = E(l, x)
        BY <3>1
      <3>3. e = [d EXCEPT !.alg.length = l, !.excess = x]
        BY <3>2 DEF E
      <3>4. Allowed
        BY <3>1
      <3> QED
        BY <3>3, <3>4, Zenon DEF Allowed
    <2> DEFINE k == d.alg.length
    <2>3. /\ d = [alg |-> [m.alg EXCEPT !.length = k], filters |-> m.filters,
                  streams |-> m.streams, strings |-> m.strings, excess |-> d.excess]
          /\ \/ k = m.alg.length
             \/ m.alg.version >= 4 /\ k = {}
             \/ m.alg.version = 1 /\ k = {40}
             \/ m.alg.version = 5 /\ k = {256}
      BY <1>m DEF WrittenFor
    <2> HIDE DEF k
    <2>4. d.alg = [m.alg EXCEPT !.length = k]
      BY <2>3
    <2>5. "length" \in DOMAIN m.alg
      BY <2>1 DEF MadeFor
    <2>6. d.alg.version = m.alg.version /\ d.alg.revision = m.alg.revision /\ d.alg.length = k
      BY <2>4, <2>5
    <2>7. [d.alg EXCEPT !.length = l] = [m.alg EXCEPT !.length = l]
      BY <2>4, <2>5
    <2>8. e = [alg |-> [m.alg EXCEPT !.length = l], filters |-> m.filters,
               streams |-> m.streams, strings |-> m.strings, excess |-> x]
      <3> DEFINE A == [m.alg EXCEPT !.length = l]
                 B == [m.alg EXCEPT !.length = k]
                 F == m.filters
                 G == m.streams
                 H == m.strings
                 y == d.excess
      <3>1. e = [d EXCEPT !.alg = A, !.excess = x]
        BY <2>2, <2>7
      <3>2. d = [alg |-> B, filters |-> F, streams |-> G, strings |-> H, excess |-> y]
        BY <2>3
      <3> HIDE DEF A, B, F, G, H, y
      <3>3. DOMAIN e = {"alg", "filters", "streams", "strings", "excess"}
        BY <3>1, <3>2
      <3>4. e.alg = A
        BY <3>1, <3>2
      <3>5. e.filters = F /\ e.streams = G /\ e.strings = H
        BY <3>1, <3>2
      <3>6. e.excess = x
        BY <3>1, <3>2
      <3>7. e = [i \in DOMAIN e |-> e[i]]
        BY <3>1
      <3>8. e = [alg |-> A, filters |-> F, streams |-> G, strings |-> H, excess |-> x]
        BY <3>3, <3>4, <3>5, <3>6, <3>7
      <3> QED
        BY <3>8 DEF A, F, G, H
    <2>9. e.alg.length = l /\ e.excess = x
      BY <2>5, <2>8
    <2>10. m.alg.revision <= 4 => x = 0
      <3>1. m.alg.revision = RevisionOf[r.version]
        BY <2>1 DEF MadeFor
      <3> QED
        BY <2>2, <2>6, <2>9, <3>1, Versions
    <2>11. \/ l = m.alg.length
           \/ m.alg.version >= 4 /\ l = {}
           \/ m.alg.version = 1 /\ l = {40}
           \/ m.alg.version = 5 /\ l = {256}
      BY <2>2, <2>3, <2>6, <2>9
    <2> QED
      BY <2>8, <2>9, <2>10, <2>11 DEF WrittenFor
  <1> QED
    BY <1>2, <1>3, <1>m, <1>5 DEF PasswordsInv

LEMMA OpenKeeps ==
    ASSUME PasswordsInv, NEW d \in dict, NEW a \in AlgorithmOf(d), NEW p, NEW key \in FileKey(a, p),
           OpenWith(d, a, key)
    PROVE  PasswordsInv'
  <1>a. PICK r \in Requests : \E m \in try_from(r) :
          /\ WrittenFor(d, m)
          /\ \A n \in Objects \ damaged : Fits(m, n) /\ contents[n] = Sealed(m, n, Plain(n))
    BY DEF PasswordsInv
  <1>1. PICK m \in try_from(r) :
          /\ WrittenFor(d, m)
          /\ \A n \in Objects \ damaged : Fits(m, n) /\ contents[n] = Sealed(m, n, Plain(n))
    BY <1>a
  <1>2. key = m.key
    BY <1>1, OnlyItsKey
  <1> DEFINE s == Decoded(d, a, key)
  <1>3. \A n, t : (Fits(s, n) <=> Fits(m, n)) /\ Opened(s, n, t) = Opened(m, n, t)
    BY <1>1, <1>2, SameFilters
  <1>4. /\ contents' = [n \in Objects |-> IF Fits(s, n) THEN Opened(s, n, contents[n]) ELSE contents[n]]
        /\ dict' = {} /\ damaged' = damaged
    BY DEF OpenWith
  <1> HIDE DEF s
  <1>5. \A n : IsTerm(Plain(n))
    BY DEF IsTerm, Plain
  <1>6. \A n \in Objects \ damaged : contents'[n] = Plain(n)
    BY <1>1, <1>3, <1>4, <1>5, OpenedIsPlain
  <1> QED
    BY <1>4, <1>6 DEF PasswordsInv

LEMMA KeysAreFileKeys ==
    ASSUME NEW d, NEW password
    PROVE  /\ \A key : key \in KeysOf(d, password) <=>
                 \E a \in AlgorithmOf(d) : \E p \in sanitize_password(d.alg.revision, password) :
                    key \in FileKey(a, p)
           /\ \A key \in LoadKeysOf(d, password) :
                 \E a \in AlgorithmOf(d) : \E p : key \in FileKey(a, p)
  <1>1. \A key : key \in KeysOf(d, password) <=>
          \E a \in AlgorithmOf(d) : \E p \in sanitize_password(d.alg.revision, password) :
             key \in FileKey(a, p)
    BY DEF KeysOf
  <1>2. \A key \in LoadKeysOf(d, password) :
          \E a \in AlgorithmOf(d) : \E q : key \in FileKey(a, Text(Bytes(Utf8, q)))
    BY DEF LoadKeysOf
  <1> QED
    BY <1>1, <1>2

LEMMA OneAlgorithm ==
    ASSUME NEW d, NEW a \in AlgorithmOf(d), NEW b \in AlgorithmOf(d)
    PROVE  a = b
  BY DEF AlgorithmOf

LEMMA DecryptKeeps ==
    ASSUME PasswordsInv, NEW password \in Tries, Decrypt(password) \/ Load(password)
    PROVE  PasswordsInv'
  <1>1. PICK d \in dict : \E a \in AlgorithmOf(d) :
          \E key \in KeysOf(d, password) \cup LoadKeysOf(d, password) : OpenWith(d, a, key)
    BY DEF Decrypt, Load
  <1>2. PICK a \in AlgorithmOf(d), key \in KeysOf(d, password) \cup LoadKeysOf(d, password) :
          OpenWith(d, a, key)
    BY <1>1
  <1>3. PICK p : key \in FileKey(a, p)
    BY <1>2, KeysAreFileKeys, OneAlgorithm
  <1> QED
    BY <1>2, <1>3, OpenKeeps

LEMMA PasswordsInvHolds == Spec => []PasswordsInv
  <1>1. Init => PasswordsInv
    BY StartsUnencrypted
  <1>2. PasswordsInv /\ [Next]_vars => PasswordsInv'
    <2> SUFFICES ASSUME PasswordsInv, [Next]_vars
                 PROVE  PasswordsInv'
      OBVIOUS
    <2>1. ASSUME NEW r \in Requests, Encrypt(r)
          PROVE  PasswordsInv'
      BY <2>1, EncryptKeeps
    <2>2. ASSUME NEW r \in Requests, EncryptFails(r)
          PROVE  PasswordsInv'
      BY <2>2, EncryptFailsKeeps
    <2>3. CASE Rewrite
      BY <2>3, RewriteKeeps
    <2>4. ASSUME NEW p \in Tries, Decrypt(p) \/ Load(p)
          PROVE  PasswordsInv'
      BY <2>4, DecryptKeeps
    <2>5. CASE UNCHANGED vars
      BY <2>5 DEF vars, PasswordsInv
    <2> QED
      BY <2>1, <2>2, <2>3, <2>4, <2>5 DEF Next
  <1> QED
    BY <1>1, <1>2, PTL DEF Spec

\* Document::decrypt and load_encrypted_document: a document that is open has the
\* contents it had at first, whichever crypt filters were used, whether another writer
\* rewrote its dictionary, and whichever password opened it, except for what a call of
\* encrypt sealed before it failed.
THEOREM OpeningRestoresContents == Spec => []ContentsRestored
  <1>1. PasswordsInv => ContentsRestored
    BY DEF PasswordsInv, ContentsRestored
  <1> QED
    BY <1>1, PasswordsInvHolds, PTL
-----------------------------------------------------------------------------
(***************************************************************************)
(* Who opens a document.                                                   *)
(***************************************************************************)
Counts(revision, p) == IF revision <= 4 THEN Padded(p) ELSE Truncated(p)

\* A password has one sanitized form or none, and it is a text.
LEMMA Sanitized ==
    ASSUME NEW revision, NEW password, NEW p \in sanitize_password(revision, password)
    PROVE  /\ sanitize_password(revision, password) = {p}
           /\ p = Text(p[2])
           /\ Significant(revision, password) = {Counts(revision, p)}
  <1>1. sanitize_password(revision, password) = {p}
    BY DEF sanitize_password, sanitize_password_r4, sanitize_password_r6
  <1>2. PICK bytes : p = Text(bytes)
    BY DEF sanitize_password, sanitize_password_r4, sanitize_password_r6
  <1>3. p = Text(p[2])
    BY <1>2 DEF Text
  <1>4. Significant(revision, password) = {Counts(revision, p)}
    BY <1>1 DEF Significant, Counts
  <1> QED
    BY <1>1, <1>3, <1>4

\* The passwords that give the key of a dictionary.
LEMMA WhoOpens ==
    ASSUME NEW r \in Requests, NEW m, NEW o, NEW u, MadeFor(r, m, o, u),
           NEW d, WrittenFor(d, m), NEW a \in AlgorithmOf(d), NEW p
    PROVE  /\ FileKey(a, p) = IF Authenticates(a, p) THEN {m.key} ELSE {}
           /\ RevisionOf[r.version] <= 4 =>
                 (Authenticates(a, p) <=> Padded(p) \in {Padded(o), Padded(u)})
           /\ ~(RevisionOf[r.version] <= 4) =>
                 (Authenticates(a, p) <=> Truncated(p) \in {o, u})
  <1>1. Keyed(a, m.key, o, u) /\ a.revision = RevisionOf[r.version]
    BY ReadAlgorithm
  <1>2. CASE RevisionOf[r.version] <= 4
    <2>1. a.revision \in {2, 3, 4} /\ KeyedR4(a, m.key, o, u)
      BY <1>1, <1>2, Versions DEF Keyed
    <2> QED
      BY <1>2, <2>1, WhoOpensR4
  <1>3. CASE ~(RevisionOf[r.version] <= 4)
    <2>1. a.revision \in {5, 6} /\ KeyedR6(a, m.key, o, u)
      BY <1>1, <1>3, Versions DEF Keyed
    <2> QED
      BY <1>3, <2>1, WhoOpensR6
  <1> QED
    BY <1>2, <1>3

LEMMA AcceptedMatches ==
    ASSUME NEW r \in Requests, NEW m, NEW o, NEW u, MadeFor(r, m, o, u),
           NEW d, WrittenFor(d, m), NEW a \in AlgorithmOf(d),
           NEW password, NEW p \in sanitize_password(RevisionOf[r.version], password),
           Authenticates(a, p)
    PROVE  Matches(r, password)
  <1> DEFINE v == RevisionOf[r.version]
  <1>1. o \in sanitize_password(v, r.owner) /\ u \in sanitize_password(v, r.user)
    BY DEF MadeFor
  <1>2. /\ Significant(v, password) = {Counts(v, p)}
        /\ Significant(v, r.owner) = {Counts(v, o)} /\ Significant(v, r.user) = {Counts(v, u)}
    BY <1>1, Sanitized
  <1>3. Counts(v, p) \in {Counts(v, o), Counts(v, u)}
    <2>1. CASE v <= 4
      BY <2>1, WhoOpens DEF Counts
    <2>2. CASE ~(v <= 4)
      <3>1. Truncated(p) \in {o, u}
        BY <2>2, WhoOpens
      <3>2. p = Text(p[2])
        BY Sanitized
      <3>3. Truncated(Truncated(p)) = Truncated(p)
        BY <3>2, TruncatedOnce
      <3> QED
        BY <2>2, <3>1, <3>3 DEF Counts
    <2> QED
      BY <2>1, <2>2
  <1> QED
    BY <1>2, <1>3 DEF Matches

\* A dictionary for a request within the limits is read.
LEMMA DictionaryIsRead ==
    ASSUME NEW r \in Requests, Reopenable(r), NEW m, NEW o, NEW u, MadeFor(r, m, o, u),
           NEW d, WrittenFor(d, m)
    PROVE  AlgorithmOf(d) # {}
  <1> DEFINE l == d.alg.length
             length == DefaultLength(d.alg.version, l)
  <1>1. m.alg.version = VersionOf[r.version] /\ m.alg.revision = RevisionOf[r.version]
    BY DEF MadeFor
  <1>2. d.alg = [m.alg EXCEPT !.length = l]
    BY DEF WrittenFor
  <1>3. m.alg.length = Algorithm(r).length
    BY DEF MadeFor
  <1>4. /\ m.alg.revision <= 4 => d.excess = 0
        /\ \/ l = m.alg.length
           \/ m.alg.version >= 4 /\ l = {}
           \/ m.alg.version = 1 /\ l = {40}
           \/ m.alg.version = 5 /\ l = {256}
    BY DEF WrittenFor
  <1> HIDE DEF l
  <1>5. d.alg.version = m.alg.version
    BY <1>2
  <1>6. d.alg.revision = m.alg.revision
    BY <1>2
  <1>7. LengthFits(d.alg.version, length)
    <2>1. CASE r.version = "V1"
      <3>1. l \in {{}, {40}} /\ d.alg.version = 1
        BY <1>1, <1>3, <1>4, <1>5, <2>1, Versions DEF Algorithm
      <3> QED
        BY <3>1 DEF DefaultLength, LengthFits
    <2>2. CASE r.version = "V2"
      <3>1. l = {r.length} /\ d.alg.version = 2
        BY <1>1, <1>3, <1>4, <1>5, <2>2, Versions DEF Algorithm
      <3>2. LengthFits(2, {r.length})
        BY <2>2 DEF Reopenable
      <3> QED
        BY <3>1, <3>2 DEF DefaultLength
    <2>3. CASE r.version = "V4"
      <3>1. l \in {{}, {128}} /\ d.alg.version = 4
        BY <1>1, <1>3, <1>4, <1>5, <2>3, Versions DEF Algorithm
      <3> QED
        BY <3>1 DEF DefaultLength, LengthFits
    <2>4. CASE r.version \in {"R5", "V5"}
      <3>1. l \in {{}, {256}} /\ d.alg.version = 5
        BY <1>1, <1>3, <1>4, <1>5, <2>4, Versions DEF Algorithm
      <3> QED
        BY <3>1 DEF DefaultLength, LengthFits
    <2> QED
      BY <2>1, <2>2, <2>3, <2>4, Versions
  <1>8. d.alg.version \in KnownVersions
    BY <1>1, <1>5, Versions DEF KnownVersions
  <1>9. d.alg.revision <= 4 => d.excess = 0
    BY <1>4, <1>6
  <1> QED
    BY <1>7, <1>8, <1>9 DEF AlgorithmOf, l

LEMMA MatchingOpens ==
    ASSUME NEW r \in Requests, Reopenable(r), NEW m, NEW o, NEW u, MadeFor(r, m, o, u),
           NEW d, WrittenFor(d, m), NEW password, Matches(r, password),
           Significant(RevisionOf[r.version], password) # {}
    PROVE  KeysOf(d, password) = {m.key}
  <1> DEFINE v == RevisionOf[r.version]
  <1>1. PICK a : a \in AlgorithmOf(d)
    BY DictionaryIsRead
  <1>2. AlgorithmOf(d) = {a}
    BY <1>1, OneAlgorithm
  <1>3. d.alg.revision = v
    BY <1>1, ReadAlgorithm
  <1>4. PICK p : p \in sanitize_password(v, password)
    BY DEF Significant
  <1>5. sanitize_password(v, password) = {p} /\ Significant(v, password) = {Counts(v, p)}
    BY <1>4, Sanitized
  <1>6. o \in sanitize_password(v, r.owner) /\ u \in sanitize_password(v, r.user)
    BY DEF MadeFor
  <1>7. Significant(v, r.owner) = {Counts(v, o)} /\ Significant(v, r.user) = {Counts(v, u)}
    BY <1>6, Sanitized
  <1>8. Counts(v, p) \in {Counts(v, o), Counts(v, u)}
    BY <1>5, <1>7 DEF Matches
  <1>9. Authenticates(a, p)
    <2>1. CASE v <= 4
      BY <1>1, <1>8, <2>1, WhoOpens DEF Counts
    <2>2. CASE ~(v <= 4)
      <3>1. o \in sanitize_password(6, r.owner) /\ u \in sanitize_password(6, r.user)
        BY <1>6, <2>2 DEF sanitize_password
      <3>2. v >= 5
        BY <2>2, Versions
      <3>3. Truncated(o) = o /\ Truncated(u) = u
        BY <3>1, <3>2 DEF Reopenable
      <3> QED
        BY <1>1, <1>8, <2>2, <3>3, WhoOpens DEF Counts
    <2> QED
      BY <2>1, <2>2
  <1>10. FileKey(a, p) = {m.key}
    BY <1>1, <1>9, WhoOpens
  <1> QED
    BY <1>2, <1>3, <1>5, <1>10, KeysAreFileKeys

\* Document::encrypt, PasswordAlgorithm and resolve_password_for_key_derivation: the
\* owner password and the user password, in any spelling that counts as the same,
\* each give the very key that encrypted the document, of every revision, from the
\* dictionary as lopdf or another writer saved it.
THEOREM EitherPasswordOpens == Spec => []EitherOpens
  <1>1. PasswordsInv => EitherOpens
    <2> SUFFICES ASSUME PasswordsInv, NEW d \in dict, NEW r \in asked, NEW m \in made,
                        NEW password \in Tries, Reopenable(r), Matches(r, password),
                        Significant(RevisionOf[r.version], password) # {}
                 PROVE  KeysOf(d, password) = {m.key}
      BY DEF EitherOpens
    <2>1. r \in Requests /\ m \in try_from(r) /\ WrittenFor(d, m)
      BY DEF PasswordsInv
    <2>2. PICK o, u : MadeFor(r, m, o, u)
      BY <2>1, StatesAreMade
    <2> QED
      BY <2>1, <2>2, MatchingOpens
  <1> QED
    BY <1>1, PasswordsInvHolds, PTL

\* PasswordAlgorithm::authenticate_owner_password and authenticate_user_password: no
\* password that differs from both in what counts is accepted, or gives a key.
THEOREM NoOtherPasswordOpens == Spec => []NobodyElseOpens
  <1>1. PasswordsInv => NobodyElseOpens
    <2> SUFFICES ASSUME PasswordsInv, NEW d \in dict, NEW r \in asked, NEW password \in Tries,
                        ~Matches(r, password)
                 PROVE  /\ KeysOf(d, password) = {}
                        /\ \A a \in AlgorithmOf(d) :
                              \A p \in sanitize_password(a.revision, password) : ~Authenticates(a, p)
      BY DEF NobodyElseOpens
    <2>1. PICK m : r \in Requests /\ m \in try_from(r) /\ WrittenFor(d, m)
      BY DEF PasswordsInv
    <2>2. PICK o, u : MadeFor(r, m, o, u)
      BY <2>1, StatesAreMade
    <2>3. ASSUME NEW a \in AlgorithmOf(d)
          PROVE  a.revision = d.alg.revision /\ a.revision = RevisionOf[r.version]
      BY <2>1, <2>2, ReadAlgorithm
    <2>4. ASSUME NEW a \in AlgorithmOf(d), NEW p \in sanitize_password(a.revision, password)
          PROVE  ~Authenticates(a, p) /\ FileKey(a, p) = {}
      <3>1. p \in sanitize_password(RevisionOf[r.version], password)
        BY <2>3
      <3>2. ~Authenticates(a, p)
        BY <2>1, <2>2, <3>1, AcceptedMatches
      <3> QED
        BY <2>1, <2>2, <3>2, WhoOpens
    <2>5. \A key : key \notin KeysOf(d, password)
      BY <2>3, <2>4, KeysAreFileKeys
    <2> QED
      BY <2>4, <2>5
  <1> QED
    BY <1>1, PasswordsInvHolds, PTL
================================================================================
