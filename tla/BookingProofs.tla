--------------------------- MODULE BookingProofs ---------------------------
(***************************************************************************)
(* What TLAPS proves of RateLimit and Booking, for any number of gateways  *)
(* and requests, any limit, window and delay, and any number of mishaps.   *)
(*                                                                         *)
(* The rate limit is proved about first, by the steps it can take itself;  *)
(* every step of Booking is one of these or leaves the limit alone.        *)
(***************************************************************************)
EXTENDS Booking, FiniteSetTheorems, TLAPS

\* Fewer elements where an injection leads into a finite set.
LEMMA InjectionBound ==
  ASSUME NEW S, NEW T, IsFiniteSet(T), NEW f \in [S -> T],
         \A x, y \in S : f[x] = f[y] => x = y
  PROVE  IsFiniteSet(S) /\ Cardinality(S) <= Cardinality(T)
  <1>1. f \in Injection(S, T)
    BY DEF Injection, IsInjective
  <1>2. QED
    BY <1>1, FS_Injection

-----------------------------------------------------------------------------
(* The rate limit.                                                         *)

LimitNext ==
  \/ \E r \in Requests : Stamp(r) \/ Admit(r) \/ Refuse(r) \/ NoScript(r)
  \/ Tick

(* What carries the limit: a stamp that was let through counts for a whole *)
(* window, and the key outlives every stamp that counts.                   *)
Counts == \A a \in admitted : a.stamp.age < Window => a.stamp \in zset

KeyLasts == \A m \in zset : Window <= m.age + ttl

OnlyAdmitted == zset \subseteq {a.stamp : a \in admitted}

\* The key was given its TTL by a stamp that was let through.
KeyHasCause == ttl > 0 => \E a \in admitted : a.stamp.age <= slowest + Window - ttl

\* The members of the sorted set that the requests let through have: of two
\* that collide it has one.
Members(b) == {a.stamp : a \in LetThrough(b)}

MembersWithinLimit == \A b \in Ages : Cardinality(Members(b)) <= Limit

LimitInv ==
  /\ LimitTypeOK
  /\ IsFiniteSet(zset) /\ IsFiniteSet(admitted)
  /\ Counts /\ KeyLasts /\ OnlyAdmitted /\ KeyHasCause
  /\ MembersWithinLimit

\* A stamp that is under way is none that its gateway has given already.
OneEach ==
  \A r \in Requests : sent[r] # NoStamp =>
    /\ [gateway |-> GatewayOf[r], stamp |-> sent[r]] \notin admitted
    /\ \A q \in Requests : q # r /\ GatewayOf[q] = GatewayOf[r] => sent[q] # sent[r]

\* Growing older adds one to the age and tells stamps apart as before.
LEMMA OlderStamp ==
  ASSUME NEW s \in Stamps
  PROVE  /\ Older(s).age = s.age + 1 /\ Older(s).seq = s.seq
         /\ s.age \in Nat
         /\ s.age < Window + MaxDelay - 1 => Older(s) \in Stamps
         /\ \A t \in Stamps : Older(s) = Older(t) => s = t
  BY RateLimitAssumption DEF Stamps, Ages, Older

\* A stamp is as old as a script can see it, at most.
LEMMA StampAge ==
  ASSUME NEW s \in Stamps
  PROVE  s.age \in Nat /\ s.age <= Window + MaxDelay - 1 /\ s.seq \in Seqs
  BY RateLimitAssumption DEF Stamps, Ages

\* The window is empty at first.
LEMMA LimitInitially == LimitInit => LimitInv
  <1> SUFFICES ASSUME LimitInit PROVE LimitInv
    OBVIOUS
  <1>1. IsFiniteSet({}) /\ Cardinality({}) = 0
    BY FS_EmptySet
  <1>2. LimitTypeOK
    BY <1>1, RateLimitAssumption DEF LimitInit, LimitTypeOK
  <1>3. \A b : Members(b) = {}
    BY DEF LimitInit, Members, LetThrough
  <1>4. MembersWithinLimit
    BY <1>1, <1>3, RateLimitAssumption DEF MembersWithinLimit
  <1>5. QED
    BY <1>1, <1>2, <1>4, RateLimitAssumption
       DEF LimitInit, LimitInv, Counts, KeyLasts, OnlyAdmitted, KeyHasCause

\* What a script leaves of the set is a finite part of it.
LEMMA KeptIsPart ==
  ASSUME LimitInv, NEW s \in Stamps
  PROVE  /\ Kept(s) \subseteq zset /\ IsFiniteSet(Kept(s))
         /\ Cardinality(Kept(s)) \in Nat /\ Cardinality(Kept(s)) <= Limit
         /\ \A m \in zset : m.age < Window => m \in Kept(s)
  <1>1. Kept(s) \subseteq zset
    BY DEF Kept
  <1>2. IsFiniteSet(Kept(s)) /\ Cardinality(Kept(s)) <= Cardinality(zset)
    BY <1>1, FS_Subset DEF LimitInv
  <1>3. Cardinality(Kept(s)) \in Nat /\ Cardinality(zset) \in Nat
    BY <1>2, FS_CardinalityType DEF LimitInv
  <1>4. Cardinality(zset) <= Limit /\ Limit \in Nat /\ Window \in Nat
    BY RateLimitAssumption DEF LimitInv, LimitTypeOK
  <1>5. \A m \in zset : m.age < Window => m \in Kept(s)
    BY <1>4, StampAge DEF Kept, LimitInv, LimitTypeOK
  <1>6. QED
    BY <1>1, <1>2, <1>3, <1>4, <1>5

\* What was let through in a window can be counted.
LEMMA FiniteWindow ==
  ASSUME LimitInv, NEW b
  PROVE  IsFiniteSet(LetThrough(b)) /\ IsFiniteSet(Members(b))
  <1> DEFINE f  == [a \in LetThrough(b) |-> a.stamp]
  <1>1. IsFiniteSet(LetThrough(b))
    BY FS_Subset, LetThrough(b) \subseteq admitted DEF LimitInv, LetThrough
  <1>2. f \in Surjection(LetThrough(b), Members(b))
    BY DEF Surjection, Members
  <1>3. QED
    BY <1>1, <1>2, FS_Surjection

\* A window that does not hold what was added holds no more than before.
LEMMA SameWindow ==
  ASSUME LimitInv, NEW b \in Ages, Members(b)' \subseteq Members(b)
  PROVE  Cardinality(Members(b)') <= Limit
  <1>1. IsFiniteSet(Members(b))
    BY FiniteWindow
  <1>2. /\ Cardinality(Members(b)') <= Cardinality(Members(b))
        /\ IsFiniteSet(Members(b)')
    BY <1>1, FS_Subset
  <1>3. Cardinality(Members(b)) <= Limit
    BY DEF LimitInv, MembersWithinLimit
  <1>4. Cardinality(Members(b)) \in Nat /\ Cardinality(Members(b)') \in Nat /\ Limit \in Nat
    BY <1>1, <1>2, FS_CardinalityType, RateLimitAssumption
  <1>5. QED
    BY <1>2, <1>3, <1>4

\* A stamp, or a call that fails before its script, counts nothing yet.
LEMMA StampStep ==
  ASSUME LimitInv, NEW r \in Requests, Stamp(r) \/ NoScript(r)
  PROVE  LimitInv'
  <1>1. UNCHANGED <<zset, ttl, admitted, slowest>>
    BY DEF Stamp, NoScript
  <1>2. /\ sent' \in [Requests -> Stamps \cup {NoStamp}]
        /\ \A q \in Requests : sent'[q] # NoStamp => sent'[q].age <= MaxDelay
    <2>1. CASE Stamp(r)
      <3>1. PICK q \in Seqs : sent' = [sent EXCEPT ![r] = [age |-> 0, seq |-> q]]
        BY <2>1 DEF Stamp, Fresh
      <3>2. [age |-> 0, seq |-> q] \in Stamps
        BY RateLimitAssumption DEF Stamps, Ages
      <3>3. QED
        BY <3>1, <3>2, RateLimitAssumption DEF LimitInv, LimitTypeOK
    <2>2. CASE NoScript(r)
      BY <2>2 DEF NoScript, LimitInv, LimitTypeOK
    <2>3. QED
      BY <2>1, <2>2
  <1>3. LimitTypeOK'
    BY <1>1, <1>2 DEF LimitInv, LimitTypeOK
  <1>4. MembersWithinLimit'
    BY <1>1 DEF LimitInv, MembersWithinLimit, Members, LetThrough
  <1>5. QED
    BY <1>1, <1>3, <1>4 DEF LimitInv, Counts, KeyLasts, OnlyAdmitted, KeyHasCause

\* A script that refuses takes its stamp back.
LEMMA RefuseStep ==
  ASSUME LimitInv, NEW r \in Requests, Refuse(r)
  PROVE  LimitInv'
  <1> DEFINE s == sent[r]
  <1>1. s \in Stamps /\ s.age <= MaxDelay /\ s.age \in Nat
    BY StampAge DEF Refuse, Ran, LimitInv, LimitTypeOK
  <1>2. /\ zset' = Kept(s) /\ ttl' = ttl /\ admitted' = admitted
        /\ slowest <= slowest' /\ slowest' \in 0..MaxDelay
    BY <1>1, RateLimitAssumption DEF Refuse, Ran, LimitInv, LimitTypeOK
  <1>3. LimitTypeOK' /\ IsFiniteSet(zset')
    <2>1. /\ sent' \in [Requests -> Stamps \cup {NoStamp}]
          /\ \A q \in Requests : sent'[q] # NoStamp => sent'[q].age <= MaxDelay
      BY DEF Refuse, Ran, LimitInv, LimitTypeOK
    <2>2. QED
      BY <1>1, <1>2, <2>1, KeptIsPart DEF LimitInv, LimitTypeOK
  <1>4. Counts'
    BY <1>1, <1>2, KeptIsPart DEF LimitInv, Counts
  <1>5. KeyLasts' /\ OnlyAdmitted'
    BY <1>1, <1>2, KeptIsPart DEF LimitInv, KeyLasts, OnlyAdmitted
  <1>6. KeyHasCause'
    <2>1. \A a \in admitted : a.stamp.age \in Nat
      BY StampAge DEF LimitInv, LimitTypeOK
    <2>2. slowest \in Nat /\ slowest' \in Nat /\ ttl \in Nat /\ Window \in Nat
      BY <1>2, RateLimitAssumption DEF LimitInv, LimitTypeOK
    <2>3. QED
      BY <1>2, <2>1, <2>2 DEF LimitInv, KeyHasCause
  <1>7. MembersWithinLimit'
    <2> SUFFICES ASSUME NEW b \in Ages PROVE Cardinality(Members(b)') <= Limit
      BY DEF MembersWithinLimit
    <2>1. \A a \in admitted : a.stamp.age \in Nat
      BY StampAge DEF LimitInv, LimitTypeOK
    <2>2. slowest \in Nat /\ slowest' \in Nat /\ b \in Nat /\ Window \in Nat
      BY <1>2, RateLimitAssumption DEF LimitInv, LimitTypeOK, Ages
    <2>3. Members(b)' \subseteq Members(b)
      BY <1>2, <2>1, <2>2 DEF Members, LetThrough
    <2>4. QED
      BY <2>3, SameWindow
  <1>8. QED
    BY <1>2, <1>3, <1>4, <1>5, <1>6, <1>7 DEF LimitInv

\* A script that admits finds fewer than the limit in its window.
LEMMA AdmitStep ==
  ASSUME LimitInv, NEW r \in Requests, Admit(r)
  PROVE  LimitInv'
  <1> DEFINE s == sent[r]
             new == [gateway |-> GatewayOf[r], stamp |-> s]
  <1>1. s \in Stamps /\ s.age <= MaxDelay /\ s.age \in Nat
    BY StampAge DEF Admit, Ran, LimitInv, LimitTypeOK
  <1>2. /\ zset' = Kept(s) \cup {s} /\ ttl' = Window /\ admitted' = admitted \cup {new}
        /\ slowest <= slowest' /\ s.age <= slowest' /\ slowest' \in 0..MaxDelay
    BY <1>1, RateLimitAssumption DEF Admit, Ran, LimitInv, LimitTypeOK
  <1>3. new \in [gateway : Gateways, stamp : Stamps] /\ new.stamp = s
    BY <1>1, RateLimitAssumption
  <1>4. IsFiniteSet(zset') /\ Cardinality(zset') <= Limit
    <2>1. Cardinality(Kept(s)) < Limit
      BY DEF Admit, Room
    <2>2. IsFiniteSet(Kept(s)) /\ Cardinality(Kept(s)) \in Nat
      BY <1>1, KeptIsPart
    <2>3. /\ IsFiniteSet(Kept(s) \cup {s})
          /\ Cardinality(Kept(s) \cup {s}) <= Cardinality(Kept(s)) + 1
      BY <2>2, FS_AddElement
    <2>4. Cardinality(Kept(s) \cup {s}) \in Nat /\ Limit \in Nat
      BY <2>3, FS_CardinalityType, RateLimitAssumption
    <2>5. QED
      BY <1>2, <2>1, <2>2, <2>3, <2>4
  <1>5. LimitTypeOK'
    <2>1. /\ sent' \in [Requests -> Stamps \cup {NoStamp}]
          /\ \A q \in Requests : sent'[q] # NoStamp => sent'[q].age <= MaxDelay
      BY DEF Admit, Ran, LimitInv, LimitTypeOK
    <2>2. ttl' \in 0..Window /\ ttl' # 0
      BY <1>2, RateLimitAssumption
    <2>3. zset' \subseteq Stamps
      BY <1>1, <1>2, KeptIsPart DEF LimitInv, LimitTypeOK
    <2>4. QED
      BY <1>2, <1>3, <1>4, <2>1, <2>2, <2>3 DEF LimitInv, LimitTypeOK
  <1>6. IsFiniteSet(admitted')
    BY <1>2, FS_AddElement DEF LimitInv
  <1>7. Counts'
    BY <1>1, <1>2, <1>3, KeptIsPart DEF LimitInv, Counts
  <1>8. KeyLasts'
    <2>1. \A m \in zset' : m.age \in Nat
      BY <1>5, StampAge DEF LimitTypeOK
    <2>2. QED
      BY <1>2, <2>1, RateLimitAssumption DEF KeyLasts
  <1>9. OnlyAdmitted'
    BY <1>1, <1>2, <1>3, KeptIsPart DEF LimitInv, OnlyAdmitted
  <1>10. KeyHasCause'
    <2>1. new \in admitted' /\ new.stamp.age <= slowest' + Window - ttl'
      BY <1>1, <1>2, <1>3, RateLimitAssumption
    <2>2. QED
      BY <2>1 DEF KeyHasCause
  <1>11. MembersWithinLimit'
    <2> SUFFICES ASSUME NEW b \in Ages PROVE Cardinality(Members(b)') <= Limit
      BY DEF MembersWithinLimit
    <2>1. \A a \in admitted' : a.stamp.age \in Nat /\ a.stamp \in Stamps
      BY <1>5, StampAge DEF LimitTypeOK
    <2>2. slowest \in Nat /\ slowest' \in Nat /\ b \in Nat /\ Window \in Nat
      BY <1>2, RateLimitAssumption DEF LimitInv, LimitTypeOK, Ages
    <2>3. CASE ~(b <= s.age /\ s.age < b + Window - slowest')
      <3>1. Members(b)' \subseteq Members(b)
        BY <1>2, <1>3, <2>1, <2>2, <2>3 DEF Members, LetThrough
      <3>2. QED
        BY <3>1, SameWindow
    <2>4. CASE b <= s.age /\ s.age < b + Window - slowest'
      <3>1. Members(b)' \subseteq zset'
        <4> SUFFICES ASSUME NEW a \in admitted', a.stamp.age < b + Window - slowest'
                     PROVE  a.stamp \in zset'
          BY DEF Members, LetThrough
        <4>1. a.stamp.age < Window
          BY <1>1, <1>2, <2>1, <2>2, <2>4
        <4>2. QED
          BY <1>7, <4>1 DEF Counts
      <3>2. Cardinality(Members(b)') <= Cardinality(zset') /\ IsFiniteSet(Members(b)')
        BY <1>4, <3>1, FS_Subset
      <3>3. Cardinality(Members(b)') \in Nat /\ Cardinality(zset') \in Nat /\ Limit \in Nat
        BY <1>4, <3>2, FS_CardinalityType, RateLimitAssumption
      <3>4. QED
        BY <1>4, <3>2, <3>3
    <2>5. QED
      BY <2>3, <2>4
  <1>12. QED
    BY <1>4, <1>5, <1>6, <1>7, <1>8, <1>9, <1>10, <1>11 DEF LimitInv

\* What is left of the history after a tick is what was there, one tick older.
LEMMA TickHistory ==
  ASSUME LimitInv, Tick, NEW a \in admitted'
  PROVE  \E x \in admitted :
           /\ a = [x EXCEPT !.stamp = Older(@)]
           /\ x.stamp \in Stamps /\ a.stamp = Older(x.stamp)
           /\ a.stamp \in Stamps /\ a.stamp.age = x.stamp.age + 1
  <1>1. PICK x \in admitted : a = [x EXCEPT !.stamp = Older(@)]
    BY DEF Tick
  <1>2. x \in [gateway : Gateways, stamp : Stamps] /\ a \in [gateway : Gateways, stamp : Stamps]
    BY DEF Tick, LimitInv, LimitTypeOK
  <1>3. a.stamp = Older(x.stamp) /\ x.stamp \in Stamps /\ a.stamp \in Stamps
    BY <1>1, <1>2
  <1>4. QED
    BY <1>1, <1>3, OlderStamp

\* And what of the history is not too old is still there.
LEMMA TickKeeps ==
  ASSUME LimitInv, Tick, NEW x \in admitted, x.stamp.age < Window + MaxDelay - 1
  PROVE  \E a \in admitted' : a.stamp = Older(x.stamp) /\ a.stamp.age = x.stamp.age + 1
  <1> DEFINE a == [x EXCEPT !.stamp = Older(@)]
  <1>1. x \in [gateway : Gateways, stamp : Stamps]
    BY DEF LimitInv, LimitTypeOK
  <1>2. Older(x.stamp) \in Stamps /\ Older(x.stamp).age = x.stamp.age + 1
    BY <1>1, OlderStamp
  <1>3. a \in [gateway : Gateways, stamp : Stamps] /\ a.stamp = Older(x.stamp)
    BY <1>1, <1>2
  <1>4. a \in admitted'
    BY <1>3 DEF Tick
  <1>5. QED
    BY <1>2, <1>3, <1>4

\* A tick tells no two entries of the history, nor of the set, into one.
LEMMA TickFinite ==
  ASSUME LimitInv, Tick
  PROVE  /\ IsFiniteSet(zset') /\ Cardinality(zset') <= Limit
         /\ IsFiniteSet(admitted')
  <1>1. IsFiniteSet(zset') /\ Cardinality(zset') <= Cardinality(zset)
    <2> DEFINE f == [m \in zset' |-> CHOOSE x \in zset : m = Older(x)]
    <2>1. \A m \in zset' : \E x \in zset : m = Older(x)
      BY DEF Tick
    <2>2. f \in [zset' -> zset] /\ \A m \in zset' : m = Older(f[m])
      BY <2>1
    <2>3. \A m, n \in zset' : f[m] = f[n] => m = n
      BY <2>2
    <2>4. QED
      BY <2>2, <2>3, InjectionBound DEF LimitInv
  <1>2. IsFiniteSet(admitted')
    <2> DEFINE g == [a \in admitted' |-> CHOOSE x \in admitted : a = [x EXCEPT !.stamp = Older(@)]]
    <2>1. \A a \in admitted' : \E x \in admitted : a = [x EXCEPT !.stamp = Older(@)]
      BY DEF Tick
    <2>2. g \in [admitted' -> admitted]
      BY <2>1
    <2>3. \A a \in admitted' : a = [g[a] EXCEPT !.stamp = Older(@)]
      BY <2>1
    <2>4. \A a, b \in admitted' : g[a] = g[b] => a = b
      BY <2>3
    <2>5. QED
      BY <2>2, <2>4, InjectionBound DEF LimitInv
  <1>3. Cardinality(zset') \in Nat /\ Cardinality(zset) \in Nat /\ Limit \in Nat
    BY <1>1, FS_CardinalityType, RateLimitAssumption DEF LimitInv
  <1>4. QED
    BY <1>1, <1>2, <1>3 DEF LimitInv, LimitTypeOK

\* When time passes nobody comes into a window of the past.
LEMMA TickStep ==
  ASSUME LimitInv, Tick
  PROVE  LimitInv'
  <1>1. /\ ttl \in Nat /\ ttl <= Window /\ Window \in Nat /\ Window > 0
        /\ MaxDelay \in Nat /\ MaxDelay < Window
        /\ slowest \in Nat /\ slowest <= MaxDelay
    BY RateLimitAssumption DEF LimitInv, LimitTypeOK
  <1>2. /\ slowest' = slowest
        /\ ttl' = IF ttl = 0 THEN 0 ELSE ttl - 1
        /\ zset' = IF ttl' = 0 THEN {} ELSE {Older(m) : m \in zset} \cap Stamps
    BY DEF Tick
  <1>3. \A m \in zset : m \in Stamps /\ m.age \in Nat
    BY StampAge DEF LimitInv, LimitTypeOK
  <1>4. LimitTypeOK'
    <2>1. ttl' \in 0..Window /\ (ttl' = 0 => zset' = {}) /\ zset' \subseteq Stamps
      BY <1>1, <1>2
    <2>2. /\ sent' \in [Requests -> Stamps \cup {NoStamp}]
          /\ \A r \in Requests : sent'[r] # NoStamp => sent'[r].age <= MaxDelay
      <3> SUFFICES ASSUME NEW r \in Requests
                   PROVE  /\ sent'[r] \in Stamps \cup {NoStamp}
                          /\ sent'[r] # NoStamp => sent'[r].age <= MaxDelay
        BY DEF Tick
      <3>1. CASE sent[r] = NoStamp
        BY <3>1 DEF Tick
      <3>2. CASE sent[r] # NoStamp
        <4>1. sent[r] \in Stamps /\ sent[r].age < MaxDelay /\ sent'[r] = Older(sent[r])
          BY <3>2 DEF Tick, LimitInv, LimitTypeOK
        <4>2. QED
          BY <1>1, <4>1, OlderStamp
      <3>3. QED
        BY <3>1, <3>2
    <2>3. admitted' \subseteq [gateway : Gateways, stamp : Stamps]
      BY DEF Tick
    <2>4. QED
      BY <1>2, <2>1, <2>2, <2>3, TickFinite DEF LimitInv, LimitTypeOK
  <1>5. Counts'
    <2> SUFFICES ASSUME NEW a \in admitted', a.stamp.age < Window
                 PROVE  a.stamp \in zset'
      BY DEF Counts
    <2>1. PICK x \in admitted : /\ x.stamp \in Stamps /\ a.stamp = Older(x.stamp)
                                /\ a.stamp \in Stamps /\ a.stamp.age = x.stamp.age + 1
      BY TickHistory
    <2>2. x.stamp.age \in Nat
      BY <2>1, StampAge
    <2>3. x.stamp \in zset
      BY <1>1, <2>1, <2>2 DEF LimitInv, Counts
    <2>4. Window <= x.stamp.age + ttl
      BY <2>3 DEF LimitInv, KeyLasts
    <2>5. ttl' # 0
      BY <1>1, <1>2, <2>1, <2>2, <2>4
    <2>6. QED
      BY <1>2, <2>1, <2>3, <2>5
  <1>6. KeyLasts'
    <2> SUFFICES ASSUME NEW m \in zset' PROVE Window <= m.age + ttl'
      BY DEF KeyLasts
    <2>1. ttl' # 0
      BY <1>2
    <2>2. PICK x \in zset : m = Older(x)
      BY <1>2, <2>1
    <2>3. Window <= x.age + ttl /\ m.age = x.age + 1 /\ x.age \in Nat
      BY <1>3, <2>2, OlderStamp DEF LimitInv, KeyLasts
    <2>4. QED
      BY <1>1, <1>2, <2>1, <2>3
  <1>7. OnlyAdmitted'
    <2> SUFFICES ASSUME NEW m \in zset' PROVE \E a \in admitted' : a.stamp = m
      BY DEF OnlyAdmitted
    <2>1. PICK x \in zset : m = Older(x) /\ m \in Stamps
      BY <1>2
    <2>2. PICK y \in admitted : y.stamp = x
      BY <2>1 DEF LimitInv, OnlyAdmitted
    <2>3. x.age < Window + MaxDelay - 1
      BY <1>1, <1>3, <2>1, OlderStamp, StampAge
    <2>4. QED
      BY <2>1, <2>2, <2>3, TickKeeps
  <1>8. KeyHasCause'
    <2> SUFFICES ASSUME ttl' > 0
                 PROVE  \E a \in admitted' : a.stamp.age <= slowest' + Window - ttl'
      BY DEF KeyHasCause
    <2>1. ttl' = ttl - 1 /\ ttl > 1
      BY <1>1, <1>2
    <2>2. PICK x \in admitted : x.stamp.age <= slowest + Window - ttl
      BY <1>1, <2>1 DEF LimitInv, KeyHasCause
    <2>3. x.stamp.age \in Nat
      BY StampAge DEF LimitInv, LimitTypeOK
    <2>4. x.stamp.age < Window + MaxDelay - 1
      BY <1>1, <2>1, <2>2, <2>3
    <2>5. PICK a \in admitted' : a.stamp.age = x.stamp.age + 1
      BY <2>4, TickKeeps
    <2>6. a.stamp.age <= slowest' + Window - ttl'
      BY <1>1, <1>2, <2>1, <2>2, <2>3, <2>5
    <2>7. QED
      BY <2>6
  <1>9. MembersWithinLimit'
    <2> SUFFICES ASSUME NEW b \in Ages PROVE Cardinality(Members(b)') <= Limit
      BY DEF MembersWithinLimit
    <2> DEFINE c == IF b = 0 THEN 0 ELSE b - 1
    <2>1. b \in Nat /\ c \in Ages /\ c \in Nat
      BY <1>1 DEF Ages
    <2>2. \A m \in Members(b)' : \E x \in Members(c) : m = Older(x)
      <3> SUFFICES ASSUME NEW a \in admitted',
                          b <= a.stamp.age, a.stamp.age < b + Window - slowest'
                   PROVE  \E x \in Members(c) : a.stamp = Older(x)
        BY DEF Members, LetThrough
      <3>1. PICK x \in admitted : /\ x.stamp \in Stamps /\ a.stamp = Older(x.stamp)
                                  /\ a.stamp.age = x.stamp.age + 1
        BY TickHistory
      <3>2. x.stamp.age \in Nat
        BY <3>1, StampAge
      <3>3. c <= x.stamp.age /\ x.stamp.age < c + Window - slowest
        BY <1>1, <1>2, <2>1, <3>1, <3>2
      <3>4. x.stamp \in Members(c)
        BY <3>3 DEF Members, LetThrough
      <3>5. QED
        BY <3>1, <3>4
    <2> DEFINE f == [m \in Members(b)' |-> CHOOSE x \in Members(c) : m = Older(x)]
    <2>3. f \in [Members(b)' -> Members(c)] /\ \A m \in Members(b)' : m = Older(f[m])
      BY <2>2
    <2>4. \A m, n \in Members(b)' : f[m] = f[n] => m = n
      BY <2>3
    <2>5. IsFiniteSet(Members(c)) /\ Cardinality(Members(c)) <= Limit
      BY <2>1, FiniteWindow DEF LimitInv, MembersWithinLimit
    <2>6. /\ IsFiniteSet(Members(b)')
          /\ Cardinality(Members(b)') <= Cardinality(Members(c))
      BY <2>3, <2>4, <2>5, InjectionBound
    <2>7. /\ Cardinality(Members(b)') \in Nat /\ Cardinality(Members(c)) \in Nat
          /\ Limit \in Nat
      BY <2>5, <2>6, FS_CardinalityType, RateLimitAssumption
    <2>8. QED
      BY <2>5, <2>6, <2>7
  <1>10. QED
    BY <1>4, <1>5, <1>6, <1>7, <1>8, <1>9, TickFinite DEF LimitInv

\* Every step of the limit keeps its invariant.
LEMMA LimitStep == LimitInv /\ [LimitNext]_limitVars => LimitInv'
  <1> SUFFICES ASSUME LimitInv, [LimitNext]_limitVars PROVE LimitInv'
    OBVIOUS
  <1>1. CASE UNCHANGED limitVars
    BY <1>1 DEF limitVars, LimitInv, LimitTypeOK, Counts, KeyLasts, OnlyAdmitted,
                KeyHasCause, MembersWithinLimit, Members, LetThrough
  <1>2. CASE \E r \in Requests : Stamp(r) \/ Admit(r) \/ Refuse(r) \/ NoScript(r)
    BY <1>2, StampStep, AdmitStep, RefuseStep
  <1>3. CASE Tick
    BY <1>3, TickStep
  <1>4. QED
    BY <1>1, <1>2, <1>3 DEF LimitNext

\* No gateway gives a stamp twice.
LEMMA OneEachStep == LimitInv /\ OneEach /\ [LimitNext]_limitVars => OneEach'
  <1> SUFFICES ASSUME LimitInv, OneEach, [LimitNext]_limitVars PROVE OneEach'
    OBVIOUS
  <1>1. CASE UNCHANGED limitVars
    BY <1>1 DEF limitVars, OneEach
  <1>2. ASSUME NEW r \in Requests, Stamp(r) PROVE OneEach'
    <2>1. PICK q \in Fresh(GatewayOf[r]) :
            sent' = [sent EXCEPT ![r] = [age |-> 0, seq |-> q]]
      BY <1>2 DEF Stamp
    <2> DEFINE now == [age |-> 0, seq |-> q]
    <2>2. /\ [gateway |-> GatewayOf[r], stamp |-> now] \notin admitted
          /\ \A p \in Requests : GatewayOf[p] = GatewayOf[r] => sent[p] # now
      BY DEF Fresh
    <2>3. admitted' = admitted
      BY <1>2 DEF Stamp
    <2>4. sent'[r] = now /\ \A p \in Requests : p # r => sent'[p] = sent[p]
      BY <2>1 DEF LimitInv, LimitTypeOK
    <2>5. QED
      BY <2>2, <2>3, <2>4 DEF OneEach
  <1>3. ASSUME NEW r \in Requests, Admit(r) \/ Refuse(r) \/ NoScript(r) PROVE OneEach'
    <2>1. /\ sent' = [sent EXCEPT ![r] = NoStamp] /\ sent[r] # NoStamp
          /\ admitted' \subseteq
               admitted \cup {[gateway |-> GatewayOf[r], stamp |-> sent[r]]}
      BY <1>3 DEF Admit, Refuse, NoScript, Ran
    <2>2. sent'[r] = NoStamp /\ \A p \in Requests : p # r => sent'[p] = sent[p]
      BY <2>1 DEF LimitInv, LimitTypeOK
    <2>3. QED
      BY <2>1, <2>2 DEF OneEach
  <1>4. ASSUME Tick PROVE OneEach'
    <2> SUFFICES ASSUME NEW r \in Requests, sent'[r] # NoStamp
                 PROVE  /\ [gateway |-> GatewayOf[r], stamp |-> sent'[r]] \notin admitted'
                        /\ \A q \in Requests : q # r /\ GatewayOf[q] = GatewayOf[r]
                             => sent'[q] # sent'[r]
      BY DEF OneEach
    <2>1. \A p \in Requests :
            /\ sent[p] = NoStamp => sent'[p] = NoStamp
            /\ sent[p] # NoStamp => sent'[p] = Older(sent[p]) /\ sent[p] \in Stamps
      BY <1>4 DEF Tick, LimitInv, LimitTypeOK
    <2>2. ASSUME [gateway |-> GatewayOf[r], stamp |-> sent'[r]] \in admitted' PROVE FALSE
      <3> DEFINE new == [gateway |-> GatewayOf[r], stamp |-> sent'[r]]
      <3>1. PICK x \in admitted : /\ new = [x EXCEPT !.stamp = Older(@)]
                                 /\ x.stamp \in Stamps /\ new.stamp = Older(x.stamp)
        BY <1>4, <2>2, TickHistory
      <3>2. x \in [gateway : Gateways, stamp : Stamps]
        BY DEF LimitInv, LimitTypeOK
      <3>3. x.gateway = GatewayOf[r]
        BY <3>1, <3>2
      <3>4. x.stamp = sent[r]
        BY <2>1, <3>1, OlderStamp
      <3>5. QED
        BY <2>1, <3>2, <3>3, <3>4 DEF OneEach
    <2>3. ASSUME NEW q \in Requests, q # r, GatewayOf[q] = GatewayOf[r]
          PROVE  sent'[q] # sent'[r]
      <3>1. sent[q] # sent[r] /\ sent[r] # NoStamp
        BY <2>1, <2>3 DEF OneEach
      <3>2. QED
        BY <2>1, <3>1, OlderStamp
    <2>4. QED
      BY <2>2, <2>3
  <1>5. QED
    BY <1>1, <1>2, <1>3, <1>4 DEF LimitNext

-----------------------------------------------------------------------------
(* Booking.                                                                *)

Stages == {"idle", "limit", "validate", "insert", "publish"} \cup Answers
Orders == {"none", "inserted", "announced", "lost"}

\* What TypeOK says of the variables that are Booking's own.
OrderTypeOK ==
  /\ cached \subseteq Packages /\ shown \in BOOLEAN /\ expired \subseteq Packages
  /\ stage \in [Requests -> Stages]
  /\ pick \in [Requests -> Packages]
  /\ order \in [Requests -> Orders]
  /\ troubled \subseteq Requests /\ mishaps \in 0..MaxMishaps
  /\ \A r \in Requests : sent[r] # NoStamp <=> stage[r] = "limit"

\* A request that is under way was made from a page of fares, each of which
\* is in Redis until its TTL has ended.
PageInv ==
  /\ shown => Packages \subseteq cached \cup expired
  /\ \A r \in Requests : stage[r] \notin {"idle"} \cup Answers => shown

\* A request has brought about what the steps before its stage bring about.
OrderInv ==
  \A r \in Requests :
    /\ stage[r] \in {"limit", "validate", "insert"} => order[r] = "none"
    /\ stage[r] = "publish" => order[r] = "inserted"

BookingInv == OrderTypeOK /\ PageInv /\ OrderInv /\ AnswerIsTrue

\* What Booking does to the limit is a step of the limit.
LEMMA LimitSteps == [Next]_vars => [LimitNext]_limitVars
  <1> SUFFICES ASSUME [Next]_vars PROVE [LimitNext]_limitVars
    OBVIOUS
  <1>1. CASE UNCHANGED vars
    BY <1>1 DEF vars
  <1>2. CASE Preview \/ \E p \in Packages : FareExpires(p)
    BY <1>2 DEF Preview, FareExpires
  <1>3. CASE \E r \in Requests : TripStart(r) \/ Serve(r)
    BY <1>3 DEF TripStart, Serve, AskLimit, Validate, Insert, Publish, LimitNext
  <1>4. CASE Tick
    BY <1>4 DEF LimitNext
  <1>5. QED
    BY <1>1, <1>2, <1>3, <1>4 DEF Next

\* What a request has sent is a stamp or none.
LEMMA LimitTypes == LimitInv => sent \in [Requests -> Stamps \cup {NoStamp}]
  BY DEF LimitInv, LimitTypeOK

\* Every stamp is told from the absence of one.
LEMMA StampIsOne ==
  ASSUME NEW q \in Seqs
  PROVE  [age |-> 0, seq |-> q] \in Stamps /\ [age |-> 0, seq |-> q] # NoStamp
  BY RateLimitAssumption, NoStampAssumption DEF Stamps, Ages

\* A stamp that grows older is still a stamp.
LEMMA OlderIsOne ==
  ASSUME LimitInv, Tick, NEW r \in Requests
  PROVE  sent'[r] # NoStamp <=> sent[r] # NoStamp
  <1>1. CASE sent[r] = NoStamp
    BY <1>1 DEF Tick
  <1>2. CASE sent[r] # NoStamp
    <2>1. sent[r] \in Stamps /\ sent[r].age < MaxDelay /\ sent'[r] = Older(sent[r])
      BY <1>2 DEF Tick, LimitInv, LimitTypeOK
    <2>2. Older(sent[r]) \in Stamps
      BY <2>1, OlderStamp, StampAge, RateLimitAssumption
    <2>3. QED
      BY <1>2, <2>1, <2>2, NoStampAssumption
  <1>3. QED
    BY <1>1, <1>2

\* Nothing is booked at first.
LEMMA BookingInitially == Init => LimitInv /\ BookingInv
  <1> SUFFICES ASSUME Init PROVE LimitInv /\ BookingInv
    OBVIOUS
  <1>1. LimitInv
    BY LimitInitially DEF Init
  <1>2. PICK p \in Packages : pick = [r \in Requests |-> p]
    BY DEF Init
  <1>3. /\ stage \in [Requests -> Stages] /\ order \in [Requests -> Orders]
        /\ pick \in [Requests -> Packages]
        /\ \A r \in Requests : stage[r] = "idle" /\ order[r] = "none" /\ sent[r] = NoStamp
    BY <1>2 DEF Init, LimitInit, Stages, Orders
  <1>4. mishaps \in 0..MaxMishaps
    BY MishapsAssumption DEF Init
  <1>5. OrderTypeOK
    BY <1>3, <1>4 DEF Init, OrderTypeOK
  <1>6. PageInv /\ OrderInv /\ AnswerIsTrue
    BY <1>3 DEF Init, PageInv, OrderInv, AnswerIsTrue
  <1>7. QED
    BY <1>1, <1>5, <1>6 DEF BookingInv

\* A preview leaves the orders alone.
LEMMA PreviewStep ==
  ASSUME LimitInv, BookingInv, Preview
  PROVE  BookingInv'
  <1>1. cached' \subseteq Packages /\ mishaps' \in 0..MaxMishaps
    BY MishapsAssumption DEF Preview, PreviewTrip, StoreFares, Mishap, BookingInv, OrderTypeOK
  <1>2. shown' \in BOOLEAN /\ (shown' => Packages \subseteq cached')
    BY DEF Preview, PreviewTrip, StoreFares, Presented
  <1>3. /\ expired' = {} /\ troubled' = {} /\ pick' = pick /\ sent' = sent
        /\ stage' = [r \in Requests |-> "idle"] /\ order' = [r \in Requests |-> "none"]
        /\ \A r \in Requests : stage[r] \in {"idle"} \cup Answers
    BY DEF Preview, limitVars
  <1>4. QED
    BY <1>1, <1>2, <1>3
       DEF BookingInv, OrderTypeOK, PageInv, OrderInv, AnswerIsTrue, Stages, Answers, Orders

\* So does a fare that expires.
LEMMA FareStep ==
  ASSUME LimitInv, BookingInv, NEW p \in Packages, FareExpires(p)
  PROVE  BookingInv'
  BY DEF FareExpires, limitVars, orderVars,
         BookingInv, OrderTypeOK, PageInv, OrderInv, AnswerIsTrue

\* A click begins a request that has brought about nothing.
LEMMA ClickStep ==
  ASSUME LimitInv, BookingInv, NEW r \in Requests, TripStart(r)
  PROVE  BookingInv'
  <1>1. PICK q \in Seqs : sent' = [sent EXCEPT ![r] = [age |-> 0, seq |-> q]]
    BY DEF TripStart, Stamp, Fresh
  <1>2. \A s \in Requests : sent'[s] # NoStamp <=> stage'[s] = "limit"
    BY <1>1, StampIsOne, LimitTypes DEF TripStart, BookingInv, OrderTypeOK
  <1>3. OrderTypeOK'
    BY <1>2 DEF TripStart, fareVars, BookingInv, OrderTypeOK, Stages, Orders
  <1>4. PageInv' /\ OrderInv'
    BY DEF TripStart, fareVars, BookingInv, OrderTypeOK, PageInv, OrderInv, Answers
  <1>5. AnswerIsTrue'
    BY DEF TripStart, fareVars, BookingInv, OrderTypeOK, AnswerIsTrue, Answers
  <1>6. QED
    BY <1>3, <1>4, <1>5 DEF BookingInv

\* What a served request does to its own entries.
LEMMA ServeFrame ==
  ASSUME LimitInv, BookingInv, NEW r \in Requests, Serve(r)
  PROVE  /\ pick' = pick /\ cached' = cached /\ shown' = shown /\ expired' = expired
         /\ troubled \subseteq troubled' /\ troubled' \subseteq troubled \cup {r}
         /\ mishaps' \in 0..MaxMishaps
         /\ stage' = [stage EXCEPT ![r] = stage'[r]] /\ stage'[r] \in Stages \ {"limit", "idle"}
         /\ stage[r] \notin {"idle"} \cup Answers
         /\ order' = [order EXCEPT ![r] = order'[r]] /\ order'[r] \in Orders
  <1> USE DEF Onward, Fails, Goto, Mishap, Stages, Answers
  <1>1. /\ pick' = pick /\ cached' = cached /\ shown' = shown /\ expired' = expired
        /\ troubled \subseteq troubled' /\ troubled' \subseteq troubled \cup {r}
    BY DEF Serve, AskLimit, Validate, Insert, Publish, fareVars
  <1>2. mishaps' \in 0..MaxMishaps
    <2>1. mishaps' = mishaps \/ (mishaps < MaxMishaps /\ mishaps' = mishaps + 1)
      BY DEF Serve, AskLimit, Validate, Insert, Publish
    <2>2. mishaps \in 0..MaxMishaps
      BY DEF BookingInv, OrderTypeOK
    <2>3. QED
      BY <2>1, <2>2, MishapsAssumption
  <1>3. /\ stage[r] \notin {"idle"} \cup Answers
        /\ \E to \in Stages \ {"limit", "idle"} : stage' = [stage EXCEPT ![r] = to]
    BY DEF Serve, AskLimit, Validate, Insert, Publish
  <1>4. \E o \in Orders : order' = [order EXCEPT ![r] = o]
    BY DEF Serve, AskLimit, Validate, Insert, Publish, BookingInv, OrderTypeOK, Orders
  <1>5. stage \in [Requests -> Stages] /\ order \in [Requests -> Orders]
    BY DEF BookingInv, OrderTypeOK
  <1>6. QED
    BY <1>1, <1>2, <1>3, <1>4, <1>5

\* A step of a request changes no order but its own, and answers what is so.
LEMMA ServeStep ==
  ASSUME LimitInv, BookingInv, NEW r \in Requests, Serve(r)
  PROVE  BookingInv'
  <1>1. \A s \in Requests : sent'[s] # NoStamp <=> stage'[s] = "limit"
    <2>1. CASE AskLimit(r)
      <3>1. sent' = [sent EXCEPT ![r] = NoStamp]
        BY <2>1 DEF AskLimit, Admit, Refuse, NoScript, Ran
      <3>2. QED
        BY <3>1, ServeFrame, LimitTypes DEF BookingInv, OrderTypeOK
    <2>2. CASE Validate(r) \/ Insert(r) \/ Publish(r)
      <3>1. sent' = sent /\ stage[r] # "limit"
        BY <2>2 DEF Validate, Insert, Publish, Onward, Fails, Goto, limitVars
      <3>2. QED
        BY <3>1, ServeFrame DEF BookingInv, OrderTypeOK
    <2>3. QED
      BY <2>1, <2>2 DEF Serve
  <1>2. OrderTypeOK'
    BY <1>1, ServeFrame DEF BookingInv, OrderTypeOK
  <1>3. PageInv'
    BY ServeFrame DEF BookingInv, OrderTypeOK, PageInv
  <1>4. /\ stage'[r] \in {"validate", "insert"} => order'[r] = "none"
        /\ stage'[r] = "publish" => order'[r] = "inserted"
        /\ stage'[r] = "created" => order'[r] \in {"announced", "lost"}
        /\ stage'[r] = "refused" => order'[r] = "none"
    BY DEF Serve, AskLimit, Validate, Insert, Publish, Onward, Fails, Goto,
           BookingInv, OrderTypeOK, OrderInv
  <1>5. stage'[r] = "error" => r \in troubled' \/ pick'[r] \in expired'
    <2>1. CASE Validate(r)
      <3>1. stage[r] = "validate" /\ pick[r] \in Packages
        BY <2>1 DEF Validate, Onward, Fails, Goto, BookingInv, OrderTypeOK
      <3>2. pick[r] \in cached \cup expired
        BY <3>1 DEF BookingInv, PageInv, Answers
      <3>3. QED
        BY <2>1, <3>2, ServeFrame
           DEF Validate, InMongo, Onward, Fails, Goto, BookingInv, OrderTypeOK
    <2>2. CASE AskLimit(r) \/ Insert(r) \/ Publish(r)
      BY <2>2 DEF AskLimit, Insert, Publish, Onward, Fails, Goto, BookingInv, OrderTypeOK
    <2>3. QED
      BY <2>1, <2>2 DEF Serve
  <1>6. OrderInv'
    BY <1>4, ServeFrame DEF BookingInv, OrderTypeOK, OrderInv
  <1>7. AnswerIsTrue'
    BY <1>4, <1>5, ServeFrame DEF BookingInv, OrderTypeOK, AnswerIsTrue
  <1>8. QED
    BY <1>2, <1>3, <1>6, <1>7 DEF BookingInv

\* Every step keeps the invariant.
LEMMA BookingStep == LimitInv /\ BookingInv /\ [Next]_vars => BookingInv'
  <1> SUFFICES ASSUME LimitInv, BookingInv, [Next]_vars PROVE BookingInv'
    OBVIOUS
  <1>1. CASE UNCHANGED vars
    BY <1>1 DEF vars, limitVars, fareVars, orderVars,
                BookingInv, OrderTypeOK, PageInv, OrderInv, AnswerIsTrue
  <1>2. CASE Preview \/ \E p \in Packages : FareExpires(p)
    BY <1>2, PreviewStep, FareStep
  <1>3. CASE \E r \in Requests : TripStart(r) \/ Serve(r)
    BY <1>3, ClickStep, ServeStep
  <1>4. CASE Tick /\ UNCHANGED <<fareVars, orderVars, mishaps>>
    BY <1>4, OlderIsOne
       DEF fareVars, orderVars, BookingInv, OrderTypeOK, PageInv, OrderInv, AnswerIsTrue
  <1>5. QED
    BY <1>1, <1>2, <1>3, <1>4 DEF Next

\* The window's invariant and the orders' hold together: what the rider is
\* answered depends on what the rate limit let through.
THEOREM Invariance == Spec => [](LimitInv /\ BookingInv)
  <1>1. LimitInv /\ BookingInv /\ [Next]_vars => LimitInv' /\ BookingInv'
    BY LimitSteps, LimitStep, BookingStep
  <1>2. QED
    BY <1>1, BookingInitially, PTL DEF Spec

\* Requests of a window whose stamps tell them apart are within the limit.
LEMMA CountedOnce ==
  ASSUME LimitInv, NEW b \in Ages, NEW S \in SUBSET LetThrough(b),
         \A x, y \in S : x.stamp = y.stamp => x = y
  PROVE  Cardinality(S) <= Limit
  <1> DEFINE f == [a \in S |-> a.stamp]
  <1>1. f \in [S -> Members(b)] /\ \A x, y \in S : f[x] = f[y] => x = y
    BY DEF Members
  <1>2. IsFiniteSet(Members(b)) /\ Cardinality(Members(b)) <= Limit
    BY FiniteWindow DEF LimitInv, MembersWithinLimit
  <1>3. IsFiniteSet(S) /\ Cardinality(S) <= Cardinality(Members(b))
    BY <1>1, <1>2, InjectionBound
  <1>4. Cardinality(S) \in Nat /\ Cardinality(Members(b)) \in Nat /\ Limit \in Nat
    BY <1>2, <1>3, FS_CardinalityType, RateLimitAssumption
  <1>5. QED
    BY <1>2, <1>3, <1>4

(* Every variable of a rider's bookings keeps its type, whatever the limit, *)
(* the window and the delays are (ratelimit.go, http.go:60-92).             *)
THEOREM TypeCorrect == Spec => []TypeOK
  <1>1. LimitInv /\ BookingInv => TypeOK
    BY DEF LimitInv, BookingInv, OrderTypeOK, TypeOK, Stages, Orders
  <1>2. QED
    BY <1>1, Invariance, PTL

(* Never are more than Limit requests let through within Window, less the   *)
(* longest delay of a script so far, unless two gateways gave one member:   *)
(* however many gateways stamp requests, and in whatever order their        *)
(* scripts run.  No gateway exceeds the limit alone, collisions or not      *)
(* (ratelimit.go:27-41, 83-96, 102-105).                                    *)
THEOREM LimitHolds == Spec => []WithinLimit
  <1>1. LimitInv => WithinLimit
    <2> SUFFICES ASSUME LimitInv, NEW b \in Ages
                 PROVE  /\ Collided(b) \/ Cardinality(LetThrough(b)) <= Limit
                        /\ \A g \in Gateways :
                             Cardinality({a \in LetThrough(b) : a.gateway = g}) <= Limit
      BY DEF WithinLimit
    <2>1. CASE ~Collided(b)
      BY <2>1, CountedOnce DEF Collided
    <2>2. ASSUME NEW g \in Gateways
          PROVE  Cardinality({a \in LetThrough(b) : a.gateway = g}) <= Limit
      <3> DEFINE S == {a \in LetThrough(b) : a.gateway = g}
      <3>1. S \subseteq LetThrough(b)
        OBVIOUS
      <3>2. \A x, y \in S : x.stamp = y.stamp => x = y
        BY DEF LetThrough, LimitInv, LimitTypeOK
      <3>3. QED
        BY <3>1, <3>2, CountedOnce
    <2>3. QED
      BY <2>1, <2>2, CountedOnce
  <1>2. QED
    BY <1>1, Invariance, PTL

(* What WithinLimit counts are requests: each one that is let through adds  *)
(* one to the history that no request before it has put there, for a        *)
(* gateway's sequence gives no number twice in a tick (ratelimit.go:47,     *)
(* 102-105).                                                                *)
THEOREM EachIsCounted ==
  Spec => [][\A r \in Requests : Admit(r) =>
               [gateway |-> GatewayOf[r], stamp |-> sent[r]] \notin admitted]_limitVars
  <1>1. Init => OneEach
    BY DEF Init, LimitInit, OneEach
  <1>2. LimitInv /\ OneEach /\ [Next]_vars => OneEach'
    BY LimitSteps, OneEachStep
  <1>3. OneEach => [\A r \in Requests : Admit(r) =>
                     [gateway |-> GatewayOf[r], stamp |-> sent[r]] \notin admitted]_limitVars
    BY DEF OneEach, Admit, Ran
  <1>4. QED
    BY <1>1, <1>2, <1>3, Invariance, PTL DEF Spec

(* Refused requests neither count nor keep the key alive                    *)
(* (ratelimit.go:27-44).                                                    *)
THEOREM RefusalsLeaveNoTrace == Spec => []OnlyAdmittedCount
  <1>1. LimitInv => OnlyAdmittedCount
    <2> SUFFICES ASSUME LimitInv PROVE OnlyAdmittedCount
      OBVIOUS
    <2>1. ttl > 0 => \E a \in admitted : a.stamp.age < Window + slowest
      <3> SUFFICES ASSUME ttl > 0 PROVE \E a \in admitted : a.stamp.age < Window + slowest
        OBVIOUS
      <3>1. PICK a \in admitted : a.stamp.age <= slowest + Window - ttl
        BY DEF LimitInv, KeyHasCause
      <3>2. a.stamp.age \in Nat /\ slowest \in Nat /\ ttl \in Nat /\ Window \in Nat
        BY StampAge, RateLimitAssumption DEF LimitInv, LimitTypeOK
      <3>3. QED
        BY <3>1, <3>2
    <2>2. QED
      BY <2>1 DEF LimitInv, OnlyAdmitted, OnlyAdmittedCount
  <1>2. QED
    BY <1>1, Invariance, PTL

(* What the rider was answered is what happened, for every click at every   *)
(* gateway (grpc_handler.go:34-55, http.go:60-92, service.go:163-209).      *)
THEOREM AnswersAreTrue == Spec => []AnswerIsTrue
  <1>1. BookingInv => AnswerIsTrue
    BY DEF BookingInv
  <1>2. QED
    BY <1>1, Invariance, PTL
=============================================================================
