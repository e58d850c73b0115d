-------------------------- MODULE AuthTokensProofs --------------------------
(***************************************************************************)
(* What TLAPS proves of AuthTokens, for any requests, pairs and mishaps.   *)
(***************************************************************************)
EXTENDS AuthTokens, FiniteSetTheorems, TLAPS

BaseTypes ==
  /\ docs \in 0..1 /\ issued \in 0..MaxPairs
  /\ parent \in [Pairs -> 0..MaxPairs] /\ root \in [Pairs -> 0..MaxPairs]
  /\ age \in [Pairs -> Ages]
  /\ whitelist \subseteq 1..issued /\ revoked \subseteq 1..issued /\ hands \subseteq 1..issued
  /\ pc \in [Requests -> Labels]
  /\ access \in [Requests -> 0..issued] /\ refresh \in [Requests -> 0..issued]
  /\ fresh \in [Requests -> 0..issued]
  /\ kept \subseteq Pairs /\ contested \subseteq Pairs
  /\ ended \subseteq 1..issued /\ mishaps \in 0..MaxMishaps

\* A pair that a request is issuing is nobody else's, is not in the user's
\* hands yet, and was issued for the token the request names.
FreshInv ==
  \A r \in Requests :
    /\ fresh[r] \notin hands /\ refresh[r] \in hands \cup {NoPair}
    /\ pc[r] \in {"save", "rotate", "drop", "answer"} =>
         fresh[r] # NoPair /\ parent[fresh[r]] = refresh[r]
    /\ pc[r] \in {"rotate", "drop"} => refresh[r] # NoPair
    /\ pc[r] = "drop" => fresh[r] \in whitelist \/ Expired(fresh[r])
    /\ pc[r] = "revoke" => access[r] # NoPair
    /\ \A s \in Requests : fresh[r] = fresh[s] /\ fresh[r] # NoPair => r = s

\* A pair goes back to the login of its parent, a token the user had.
TreeInv ==
  /\ \A p \in 1..issued :
       /\ parent[p] < p /\ root[p] \in 1..p
       /\ parent[p] = NoPair => root[p] = p
       /\ parent[p] # NoPair => parent[p] \in hands /\ root[p] = root[parent[p]]
  /\ \A p \in Pairs : p > issued => parent[p] = NoPair /\ root[p] = NoPair /\ age[p] = 0

\* An older pair is not younger.
AgeInv == \A p, q \in Pairs : p < q => age[p] >= age[q]

TypeInv == BaseTypes /\ FreshInv /\ TreeInv /\ AgeInv

Spends(r, o) == refresh[r] = o /\ pc[r] \in {"rotate", "drop"}

\* An uncontested token has one successor at most, and one that has a
\* successor is listed only while the request that issued it is at work.
SpendInv ==
  \A o \in Pairs : o \notin contested =>
    /\ \A p, q \in Pairs : parent[p] = o /\ parent[q] = o => p = q
    /\ \A p \in Pairs : parent[p] = o /\ o \in whitelist => \E r \in Requests : Spends(r, o)

\* The pairs of an uncontested login form a chain: all but its last have a
\* successor.
Uncontested(l) == \A t \in Pairs : root[t] = l => t \notin contested

ChainInv ==
  \A p, q \in 1..issued : p < q /\ root[p] = root[q] /\ Uncontested(root[p]) =>
    \E c \in 1..issued : parent[c] = p

\* A login that ended has no token in the whitelist, nor one on its way there.
EndInv ==
  \A l \in ended :
    /\ \A p \in whitelist : root[p] # l
    /\ \A r \in Requests : pc[r] \in {"save", "rotate"} => root[fresh[r]] # l

AuthInv == TypeInv /\ SpendInv /\ ChainInv /\ EndInv /\ AlwaysOneRefresh

-----------------------------------------------------------------------------
(* Types.                                                                  *)

\* The stronger types give the model's own.
LEMMA TypesHold == TypeInv => TypeOK
  <1> SUFFICES ASSUME TypeInv PROVE TypeOK
    OBVIOUS
  <1>1. BaseTypes /\ FreshInv /\ TreeInv
    BY DEF TypeInv
  <1>2. ended \subseteq Pairs
    BY <1>1, BoundsAssumption DEF BaseTypes, Pairs
  <1>3. \A r \in Requests : pc[r] \in {"save", "rotate", "drop", "answer"} => fresh[r] # NoPair
    BY <1>1 DEF FreshInv
  <1>4. \A r, s \in Requests : fresh[r] = fresh[s] /\ fresh[r] # NoPair => r = s
    BY <1>1 DEF FreshInv
  <1>5. \A p \in 1..issued : parent[p] < p /\ root[p] \in 1..p
    BY <1>1 DEF TreeInv
  <1>6. QED
    BY <1>1, <1>2, <1>3, <1>4, <1>5 DEF TypeOK, BaseTypes

\* Issuing a pair, for a login or for a token of the user's.
LEMMA IssueTypes ==
  ASSUME TypeInv, NEW r \in Requests, NEW o \in hands \cup {NoPair},
         NEW label \in {"save", "rotate"}, label = "rotate" => o # NoPair,
         At(r, "idle"), Issue(r, o, label),
         UNCHANGED <<docs, whitelist, revoked, hands, kept, ended, mishaps>>,
         contested' \subseteq contested \cup hands
  PROVE  TypeInv'
  <1> USE BoundsAssumption
  <1>0. BaseTypes /\ FreshInv /\ TreeInv /\ AgeInv
    BY DEF TypeInv
  <1> DEFINE p == issued + 1
  <1>1. /\ p \in Pairs /\ issued' = p /\ issued \in Nat /\ o \in 0..issued
        /\ parent' = [parent EXCEPT ![p] = o]
        /\ root' = [root EXCEPT ![p] = IF o = NoPair THEN p ELSE root[o]]
        /\ fresh' = [fresh EXCEPT ![r] = p] /\ refresh' = [refresh EXCEPT ![r] = o]
        /\ pc' = [pc EXCEPT ![r] = label] /\ UNCHANGED <<access, age>>
    BY <1>0 DEF Issue, NewPair, BaseTypes, Pairs, NoPair
  <1>2. 0..issued \subseteq 0..p /\ 1..issued \subseteq 1..p /\ 1..issued \subseteq Pairs
        /\ p \notin 1..issued /\ p # NoPair /\ p \in 0..p
    BY <1>0, <1>1 DEF BaseTypes, Pairs, NoPair
  <1> HIDE DEF p
  <1>3. o # NoPair => o \in 1..issued /\ root[o] \in 1..o
    BY <1>0, <1>1 DEF TreeInv, NoPair
  <1>4. BaseTypes'
    <2>1. docs' \in 0..1 /\ issued' \in 0..MaxPairs /\ age' \in [Pairs -> Ages]
      BY <1>0, <1>1 DEF BaseTypes, Pairs
    <2>2. parent' \in [Pairs -> 0..MaxPairs]
      BY <1>0, <1>1 DEF BaseTypes
    <2>3. root' \in [Pairs -> 0..MaxPairs]
      BY <1>0, <1>1, <1>2, <1>3 DEF BaseTypes, Pairs
    <2>4. whitelist' \subseteq 1..issued' /\ revoked' \subseteq 1..issued' /\ hands' \subseteq 1..issued'
          /\ ended' \subseteq 1..issued'
      BY <1>0, <1>1, <1>2 DEF BaseTypes
    <2>5. pc' \in [Requests -> Labels]
      BY <1>0, <1>1 DEF BaseTypes, Labels
    <2>6. access' \in [Requests -> 0..issued'] /\ refresh' \in [Requests -> 0..issued']
          /\ fresh' \in [Requests -> 0..issued']
      BY <1>0, <1>1, <1>2 DEF BaseTypes
    <2>7. kept' \subseteq Pairs /\ contested' \subseteq Pairs /\ mishaps' \in 0..MaxMishaps
      BY <1>0, <1>2 DEF BaseTypes
    <2>8. QED
      BY <2>1, <2>2, <2>3, <2>4, <2>5, <2>6, <2>7 DEF BaseTypes
  <1>5. FreshInv'
    <2>1. \A s \in Requests : s # r => /\ pc'[s] = pc[s] /\ fresh'[s] = fresh[s] /\ refresh'[s] = refresh[s]
                                       /\ fresh[s] # p /\ fresh[s] \in 0..issued
      BY <1>0, <1>1 DEF BaseTypes, p
    <2>2. /\ fresh'[r] = p /\ refresh'[r] = o /\ pc'[r] = label /\ parent'[p] = o
          /\ p \notin hands
      BY <1>0, <1>1, <1>2 DEF BaseTypes
    <2>3. \A q \in Pairs : q # p => parent'[q] = parent[q]
      BY <1>0, <1>1 DEF BaseTypes
    <2>4. SUFFICES ASSUME NEW s \in Requests
                   PROVE  /\ fresh'[s] \notin hands' /\ refresh'[s] \in hands' \cup {NoPair}
                          /\ pc'[s] \in {"save", "rotate", "drop", "answer"} =>
                               fresh'[s] # NoPair /\ parent'[fresh'[s]] = refresh'[s]
                          /\ pc'[s] \in {"rotate", "drop"} => refresh'[s] # NoPair
                          /\ pc'[s] = "drop" => fresh'[s] \in whitelist' \/ age'[fresh'[s]] = 2
                          /\ pc'[s] = "revoke" => access'[s] # NoPair
                          /\ \A t \in Requests : fresh'[s] = fresh'[t] /\ fresh'[s] # NoPair => s = t
      BY DEF FreshInv, Expired
    <2>5. CASE s = r
      BY <1>1, <1>2, <2>1, <2>2, <2>5
    <2>6. CASE s # r
      <3>1. fresh[s] # NoPair => fresh[s] \in Pairs /\ fresh[s] # p
        BY <1>2, <2>1, <2>6 DEF NoPair
      <3>2. QED
        BY <1>0, <1>1, <2>1, <2>2, <2>3, <2>6, <3>1 DEF FreshInv, Expired
    <2>7. QED
      BY <2>5, <2>6
  <1>6. TreeInv'
    <2>1. /\ parent'[p] = o /\ root'[p] = (IF o = NoPair THEN p ELSE root[o])
          /\ \A q \in Pairs : q # p => parent'[q] = parent[q] /\ root'[q] = root[q]
      BY <1>0, <1>1 DEF BaseTypes
    <2>2. \A q \in 1..issued' : q = p \/ q \in 1..issued
      BY <1>1 DEF p
    <2>3. o < p /\ (o # NoPair => root[o] \in 1..p /\ o # p /\ o \in hands)
      BY <1>1, <1>3 DEF p
    <2>4. /\ parent'[p] < p /\ root'[p] \in 1..p
          /\ parent'[p] = NoPair => root'[p] = p
          /\ parent'[p] # NoPair => parent'[p] \in hands' /\ root'[p] = root'[parent'[p]]
      BY <1>1, <1>2, <1>3, <2>1, <2>3
    <2>5. ASSUME NEW q \in 1..issued
          PROVE  /\ parent'[q] < q /\ root'[q] \in 1..q
                 /\ parent'[q] = NoPair => root'[q] = q
                 /\ parent'[q] # NoPair => parent'[q] \in hands' /\ root'[q] = root'[parent'[q]]
      <3>1. parent'[q] = parent[q] /\ root'[q] = root[q]
        BY <1>2, <2>1
      <3>2. parent[q] # NoPair => parent[q] \in hands /\ parent[q] \in 1..issued
        BY <1>0 DEF TreeInv, BaseTypes
      <3>3. parent[q] # NoPair => root'[parent[q]] = root[parent[q]]
        BY <1>2, <2>1, <3>2
      <3>4. QED
        BY <1>0, <3>1, <3>2, <3>3 DEF TreeInv
    <2>6. \A q \in Pairs : q > issued' => parent'[q] = NoPair /\ root'[q] = NoPair /\ age'[q] = 0
      BY <1>0, <1>1, <2>1 DEF TreeInv, p, Pairs
    <2>7. QED
      BY <2>2, <2>4, <2>5, <2>6 DEF TreeInv
  <1>7. AgeInv'
    BY <1>0, <1>1 DEF AgeInv
  <1>8. QED
    BY <1>4, <1>5, <1>6, <1>7 DEF TypeInv

\* What a request does after its pair was issued: it leaves the tokens alone,
\* and goes on or ends.
LEMMA ServeMoves ==
  ASSUME TypeInv, NEW r \in Requests, Serve(r)
  PROVE  /\ UNCHANGED <<docs, issued, parent, root, age>>
         /\ \/ /\ UNCHANGED <<access, refresh, fresh>> /\ hands' = hands
               /\ \/ pc[r] = "save" /\ pc' = [pc EXCEPT ![r] = "answer"]
                  \/ pc[r] = "rotate" /\ pc' = [pc EXCEPT ![r] = "drop"] /\ fresh[r] \in whitelist'
                  \/ pc[r] = "drop" /\ pc' = [pc EXCEPT ![r] = "answer"]
                  \/ pc[r] = "revoke" /\ pc' = [pc EXCEPT ![r] = "forget"]
            \/ /\ Finish(r) /\ pc[r] \in {"answer", "rotate", "revoke", "forget"}
               /\ hands' = hands \/ (pc[r] = "answer" /\ hands' = hands \cup {fresh[r]})
         /\ mishaps' \in 0..MaxMishaps
         /\ contested \subseteq contested'
         /\ contested' \subseteq contested \cup (IF pc[r] \in {"rotate", "drop"} THEN {refresh[r]} ELSE {})
  <1> USE BoundsAssumption DEF TypeInv, BaseTypes
  <1>1. CASE Save(r)
    BY <1>1 DEF Save, Goto, At, Smooth, Mishap, tokens, history
  <1>2. CASE Answer(r)
    BY <1>2 DEF Answer, At, Smooth, Mishap, tokens
  <1>3. CASE Rotate(r)
    BY <1>3 DEF Rotate, Refused, Enlist, Goto, At, Smooth, Mishap, tokens
  <1>4. CASE Drop(r)
    BY <1>4 DEF Drop, Goto, At, Smooth, Mishap, tokens
  <1>5. CASE Revoke(r)
    BY <1>5 DEF Revoke, Goto, At, Smooth, Mishap, tokens, history
  <1>6. CASE Forget(r)
    BY <1>6 DEF Forget, At, Smooth, Mishap, tokens
  <1>7. QED
    BY <1>1, <1>2, <1>3, <1>4, <1>5, <1>6 DEF Serve

\* What a step of a request does to the keys in Redis: only save and rotate
\* write one, only drop and forget remove one.
LEMMA ServeKeys ==
  ASSUME TypeInv, NEW r \in Requests, Serve(r)
  PROVE  /\ whitelist' \subseteq 1..issued /\ revoked' \subseteq 1..issued
         /\ whitelist' \subseteq whitelist \cup (IF pc[r] \in {"save", "rotate"} THEN {fresh[r]} ELSE {})
         /\ whitelist \subseteq whitelist' \cup
                                  (IF pc[r] \in {"drop", "forget"} THEN {refresh[r]} ELSE {})
         /\ kept' \subseteq Pairs /\ ended' \subseteq 1..issued
  <1> USE BoundsAssumption DEF TypeInv, BaseTypes
  <1>1. whitelist' \subseteq whitelist \cup (IF pc[r] \in {"save", "rotate"} THEN {fresh[r]} ELSE {})
    BY DEF Serve, Save, Answer, Rotate, Drop, Revoke, Forget, Enlist, Strike, At, redis
  <1>2. whitelist \subseteq whitelist' \cup (IF pc[r] \in {"drop", "forget"} THEN {refresh[r]} ELSE {})
    BY DEF Serve, Save, Answer, Rotate, Drop, Revoke, Forget, Enlist, Strike, At, redis
  <1>3. pc[r] \in {"save", "rotate"} => fresh[r] \in 1..issued
    BY DEF FreshInv, NoPair
  <1>4. whitelist' \subseteq 1..issued
    BY <1>1, <1>3
  <1>5. revoked' \subseteq 1..issued
    <2>1. CASE Revoke(r)
      <3>1. access[r] \in 0..issued /\ (revoked' = revoked \/ revoked' = revoked \cup {access[r]})
        BY <2>1 DEF Revoke
      <3>2. access[r] \in 1..issued
        BY <2>1, <3>1 DEF Revoke, At, FreshInv, NoPair
      <3>3. QED
        BY <3>1, <3>2
    <2>2. CASE ~Revoke(r)
      BY <2>2 DEF Serve, Save, Answer, Rotate, Drop, Forget, redis
    <2>3. QED
      BY <2>1, <2>2
  <1>6. kept' \subseteq Pairs
    <2>1. pc[r] = "answer" => fresh[r] \in Pairs
      BY DEF FreshInv, NoPair, Pairs
    <2>2. QED
      BY <2>1 DEF Serve, Save, Answer, Rotate, Drop, Revoke, Forget, history, At
  <1>7. ended' \subseteq 1..issued
    <2>1. CASE Forget(r)
      <3>1. refresh[r] # NoPair => refresh[r] \in 1..issued /\ root[refresh[r]] \in 1..issued
        BY DEF NoPair, TreeInv
      <3>2. QED
        BY <2>1, <3>1 DEF Forget
    <2>2. CASE ~Forget(r)
      BY <2>2 DEF Serve, Save, Answer, Rotate, Drop, Revoke, history
    <2>3. QED
      BY <2>1, <2>2
  <1>8. QED
    BY <1>1, <1>2, <1>4, <1>5, <1>6, <1>7

\* A request that goes on, or ends.
LEMMA ServeTypes ==
  ASSUME TypeInv, NEW r \in Requests, Serve(r)
  PROVE  TypeInv'
  <1> USE BoundsAssumption
  <1>0. BaseTypes /\ FreshInv /\ TreeInv /\ AgeInv
    BY DEF TypeInv
  <1>1. UNCHANGED <<docs, issued, parent, root, age>> /\ mishaps' \in 0..MaxMishaps
    BY ServeMoves
  <1>2. /\ \A s \in Requests : s # r =>
             pc'[s] = pc[s] /\ access'[s] = access[s] /\ refresh'[s] = refresh[s] /\ fresh'[s] = fresh[s]
        /\ \/ /\ UNCHANGED <<access, refresh, fresh>> /\ hands' = hands
              /\ \/ pc[r] = "save" /\ pc'[r] = "answer"
                 \/ pc[r] = "rotate" /\ pc'[r] = "drop" /\ fresh[r] \in whitelist'
                 \/ pc[r] = "drop" /\ pc'[r] = "answer"
                 \/ pc[r] = "revoke" /\ pc'[r] = "forget"
           \/ /\ pc'[r] = "idle" /\ access'[r] = NoPair /\ refresh'[r] = NoPair /\ fresh'[r] = NoPair
              /\ hands' = hands \/ (pc[r] = "answer" /\ hands' = hands \cup {fresh[r]})
    BY <1>0, ServeMoves DEF Finish, BaseTypes
  <1>3. hands \subseteq hands' /\ hands' \subseteq 1..issued /\ NoPair \notin hands'
    <2>1. pc[r] = "answer" => fresh[r] \in 1..issued
      BY <1>0 DEF FreshInv, BaseTypes, NoPair
    <2>2. hands' = hands \/ (pc[r] = "answer" /\ hands' = hands \cup {fresh[r]})
      BY <1>2
    <2>3. hands \subseteq hands' /\ hands' \subseteq 1..issued
      BY <1>0, <2>1, <2>2 DEF BaseTypes
    <2>4. QED
      BY <2>3 DEF NoPair
  <1>4. BaseTypes'
    <2>1. pc' \in [Requests -> Labels]
      BY <1>0, ServeMoves DEF Finish, BaseTypes, Labels
    <2>2. access' \in [Requests -> 0..issued] /\ refresh' \in [Requests -> 0..issued]
          /\ fresh' \in [Requests -> 0..issued]
      BY <1>0, ServeMoves DEF Finish, BaseTypes, NoPair
    <2>3. contested' \subseteq Pairs
      <3>1. pc[r] \in {"rotate", "drop"} => refresh[r] \in Pairs
        BY <1>0 DEF FreshInv, BaseTypes, NoPair, Pairs
      <3>2. QED
        BY <1>0, <3>1, ServeMoves DEF BaseTypes
    <2>4. QED
      BY <1>0, <1>1, <1>3, <2>1, <2>2, <2>3, ServeKeys DEF BaseTypes
  <1>5. FreshInv'
    <2>1. \A q \in hands : \A s \in Requests : s # r => fresh'[s] # q
      BY <1>0, <1>2 DEF FreshInv
    <2>2. \A s \in Requests : s # r /\ fresh[r] # NoPair => fresh[s] # fresh[r]
      BY <1>0 DEF FreshInv
    <2>3. \A s \in Requests : s # r => fresh'[s] \notin hands'
      <3>1. pc[r] = "answer" => fresh[r] # NoPair
        BY <1>0 DEF FreshInv
      <3>2. QED
        BY <1>2, <2>1, <2>2, <3>1
    <2>4. fresh'[r] \notin hands'
      BY <1>0, <1>2, <1>3 DEF FreshInv
    <2>5. \A s \in Requests : refresh'[s] \in hands' \cup {NoPair}
      BY <1>0, <1>2, <1>3 DEF FreshInv
    <2>6. \A s \in Requests :
            /\ pc'[s] \in {"save", "rotate", "drop", "answer"} =>
                 fresh'[s] # NoPair /\ parent'[fresh'[s]] = refresh'[s]
            /\ pc'[s] \in {"rotate", "drop"} => refresh'[s] # NoPair
            /\ pc'[s] = "revoke" => access'[s] # NoPair
      BY <1>0, <1>1, <1>2 DEF FreshInv
    <2>7. \A s \in Requests : pc'[s] = "drop" => fresh'[s] \in whitelist' \/ age'[fresh'[s]] = 2
      <3>1. SUFFICES ASSUME NEW s \in Requests, s # r, pc[s] = "drop", fresh[s] \in whitelist
                     PROVE  fresh[s] \in whitelist'
        BY <1>0, <1>1, <1>2 DEF FreshInv, Expired
      <3>2. pc[r] \in {"drop", "forget"} => refresh[r] # fresh[s]
        <4>1. fresh[s] \notin hands /\ fresh[s] # NoPair /\ refresh[r] \in hands \cup {NoPair}
          BY <1>0, <3>1 DEF FreshInv
        <4>2. QED
          BY <4>1
      <3>3. QED
        BY <3>1, <3>2, ServeKeys
    <2>8. \A s, t \in Requests : fresh'[s] = fresh'[t] /\ fresh'[s] # NoPair => s = t
      BY <1>0, <1>2 DEF FreshInv
    <2>9. QED
      BY <2>3, <2>4, <2>5, <2>6, <2>7, <2>8 DEF FreshInv, Expired
  <1>6. TreeInv'
    BY <1>0, <1>1, <1>3 DEF TreeInv
  <1>7. AgeInv'
    BY <1>0, <1>1 DEF AgeInv
  <1>8. QED
    BY <1>4, <1>5, <1>6, <1>7 DEF TypeInv

\* Passing the guard of the gateway keeps the types.
LEMMA GuardTypes ==
  ASSUME TypeInv, NEW r \in Requests, NEW p \in Pairs, NEW q \in Pairs \cup {NoPair}, Guard(r, p, q)
  PROVE  TypeInv'
  <1>0. BaseTypes /\ FreshInv /\ TreeInv /\ AgeInv
    BY DEF TypeInv
  <1>1. /\ UNCHANGED <<docs, issued, parent, root, age, whitelist, revoked, fresh, hands, kept, contested,
                       ended, mishaps>>
        /\ pc' = [pc EXCEPT ![r] = "revoke"]
        /\ access' = [access EXCEPT ![r] = p] /\ refresh' = [refresh EXCEPT ![r] = q]
        /\ p \in hands /\ q \in hands \cup {NoPair}
    BY DEF Guard, tokens, redis, history
  <1>2. p \in 1..issued /\ q \in 0..issued /\ p # NoPair
    BY <1>0, <1>1 DEF BaseTypes, NoPair
  <1>3. BaseTypes'
    BY <1>0, <1>1, <1>2 DEF BaseTypes, Labels
  <1>4. FreshInv'
    BY <1>0, <1>1, <1>2 DEF FreshInv, BaseTypes, Expired
  <1>5. TreeInv' /\ AgeInv'
    BY <1>0, <1>1 DEF TreeInv, AgeInv
  <1>6. QED
    BY <1>3, <1>4, <1>5 DEF TypeInv

\* Time, and an account that is made.
LEMMA TimeTypes ==
  ASSUME TypeInv, NEW p \in Pairs, GrowOld(p) \/ KeyExpires(p)
  PROVE  TypeInv'
  <1> USE BoundsAssumption
  <1>0. BaseTypes /\ FreshInv /\ TreeInv /\ AgeInv
    BY DEF TypeInv
  <1>1. UNCHANGED <<docs, issued, parent, root, pc, access, refresh, fresh, hands, contested, ended, mishaps>>
    BY DEF GrowOld, KeyExpires, request, tokens, history
  <1>2. CASE GrowOld(p)
    <2>1. /\ age' = [age EXCEPT ![p] = @ + 1] /\ p <= issued /\ age[p] # 2 /\ UNCHANGED <<whitelist, revoked>>
          /\ \A q \in 1..(p - 1) : age[q] > age[p]
          /\ kept' \subseteq kept
      BY <1>2 DEF GrowOld, Expired, redis
    <2>2. age' \in [Pairs -> Ages]
      BY <1>0, <2>1 DEF BaseTypes, Ages
    <2>3. BaseTypes'
      BY <1>0, <1>1, <2>1, <2>2 DEF BaseTypes
    <2>4. \A q \in Pairs : age[q] = 2 => age'[q] = 2
      BY <1>0, <2>1 DEF BaseTypes, Ages
    <2>5. FreshInv'
      <3>1. \A s \in Requests : pc[s] = "drop" => fresh[s] \in Pairs
        BY <1>0 DEF FreshInv, BaseTypes, Pairs, NoPair
      <3>2. \A s \in Requests : pc'[s] = "drop" => fresh'[s] \in whitelist' \/ age'[fresh'[s]] = 2
        BY <1>0, <1>1, <2>1, <2>4, <3>1 DEF FreshInv, Expired
      <3>3. QED
        BY <1>0, <1>1, <3>2 DEF FreshInv, Expired
    <2>6. TreeInv'
      BY <1>0, <1>1, <2>1 DEF TreeInv, BaseTypes, Pairs
    <2>7. AgeInv'
      <3>1. SUFFICES ASSUME NEW a \in Pairs, NEW b \in Pairs, a < b PROVE age'[a] >= age'[b]
        BY DEF AgeInv
      <3>2. age[a] \in Nat /\ age[b] \in Nat /\ age[a] >= age[b]
        BY <1>0, <3>1 DEF AgeInv, BaseTypes, Ages
      <3>3. CASE b = p
        <4>1. a \in 1..(p - 1)
          BY <3>1, <3>3 DEF Pairs
        <4>2. QED
          BY <1>0, <2>1, <3>1, <3>2, <3>3, <4>1 DEF BaseTypes
      <3>4. CASE b # p
        BY <1>0, <2>1, <3>2, <3>4 DEF BaseTypes
      <3>5. QED
        BY <3>3, <3>4
    <2>8. QED
      BY <2>3, <2>5, <2>6, <2>7 DEF TypeInv
  <1>3. CASE KeyExpires(p)
    <2>1. /\ UNCHANGED <<age, kept>> /\ whitelist' \subseteq whitelist /\ revoked' \subseteq revoked
          /\ \A q \in whitelist : q \in whitelist' \/ Expired(q)
      BY <1>3 DEF KeyExpires, Strike, tokens, history
    <2>2. BaseTypes'
      BY <1>0, <1>1, <2>1 DEF BaseTypes
    <2>3. FreshInv'
      BY <1>0, <1>1, <2>1 DEF FreshInv, Expired
    <2>4. TreeInv' /\ AgeInv'
      BY <1>0, <1>1, <2>1 DEF TreeInv, AgeInv
    <2>5. QED
      BY <2>2, <2>3, <2>4 DEF TypeInv
  <1>4. QED
    BY <1>2, <1>3

\* The cases of a step.
LEMMA StepCases ==
  [Next]_vars =>
    \/ UNCHANGED vars
    \/ \E r \in Requests : Register(r) \/ Login(r) \/ Serve(r)
    \/ \E r \in Requests, o \in Pairs : Check(r, o)
    \/ \E r \in Requests, p \in Pairs, q \in Pairs \cup {NoPair} : Guard(r, p, q)
    \/ \E p \in Pairs : GrowOld(p) \/ KeyExpires(p)
  BY DEF Next

\* A registration concerns nothing but the account.
LEMMA RegisterLeaves ==
  ASSUME TypeInv, NEW r \in Requests, Register(r)
  PROVE  /\ UNCHANGED <<tokens, redis, request, hands, history>>
         /\ docs' \in 0..1 /\ mishaps' \in 0..MaxMishaps
  BY BoundsAssumption DEF Register, TypeInv, BaseTypes, Vacant, Smooth, Mishap

\* Every step keeps the types.
LEMMA TypeStep == TypeInv /\ [Next]_vars => TypeInv'
  <1> SUFFICES ASSUME TypeInv, [Next]_vars PROVE TypeInv'
    OBVIOUS
  <1>1. ASSUME UNCHANGED <<tokens, redis, request, hands, history>>, docs' \in 0..1, mishaps' \in 0..MaxMishaps
        PROVE  TypeInv'
    <2>1. BaseTypes'
      BY <1>1 DEF TypeInv, BaseTypes, tokens, redis, request, history
    <2>2. FreshInv'
      BY <1>1 DEF TypeInv, FreshInv, tokens, redis, request, Expired
    <2>3. TreeInv' /\ AgeInv'
      BY <1>1 DEF TypeInv, TreeInv, AgeInv, tokens
    <2>4. QED
      BY <2>1, <2>2, <2>3 DEF TypeInv
  <1>2. CASE UNCHANGED vars
    <2>1. docs \in 0..1 /\ mishaps \in 0..MaxMishaps
      BY DEF TypeInv, BaseTypes
    <2>2. QED
      BY <1>1, <1>2, <2>1 DEF vars
  <1>3. ASSUME NEW r \in Requests, Register(r) PROVE TypeInv'
    BY <1>1, <1>3, RegisterLeaves
  <1>4. ASSUME NEW r \in Requests, Login(r) PROVE TypeInv'
    BY <1>4, IssueTypes DEF Login, redis, history
  <1>5. ASSUME NEW r \in Requests, NEW o \in Pairs, Check(r, o) PROVE TypeInv'
    <2>1. /\ At(r, "idle") /\ o \in hands /\ Issue(r, o, "rotate") /\ o # NoPair
          /\ UNCHANGED <<docs, whitelist, revoked, hands, kept, ended, mishaps>>
          /\ contested' \subseteq contested \cup hands
      BY <1>5 DEF Check, redis, Pairs, NoPair
    <2>2. QED
      BY <2>1, IssueTypes
  <1>6. QED
    BY <1>2, <1>3, <1>4, <1>5, StepCases, ServeTypes, GuardTypes, TimeTypes

-----------------------------------------------------------------------------
(* Tokens are spent once.                                                  *)

\* A token that was rotated is in the user's hands, so no request issues it.
LEMMA ParentInHands ==
  ASSUME TypeInv, NEW p \in Pairs, parent[p] # NoPair
  PROVE  p \in 1..issued /\ parent[p] \in hands /\ root[p] = root[parent[p]]
  BY DEF TypeInv, TreeInv, BaseTypes, Pairs

\* The pair that Login and Check issue, next to those that there are.
LEMMA IssueMoves ==
  ASSUME TypeInv, NEW r \in Requests, NEW o \in 0..issued, NEW label, At(r, "idle"), Issue(r, o, label)
  PROVE  /\ issued' = issued + 1 /\ issued + 1 \in Pairs /\ issued \in Nat
         /\ parent'[issued + 1] = o
         /\ root'[issued + 1] = (IF o = NoPair THEN issued + 1 ELSE root[o])
         /\ \A p \in Pairs : p # issued + 1 => parent'[p] = parent[p] /\ root'[p] = root[p]
         /\ fresh'[r] = issued + 1 /\ refresh'[r] = o /\ pc'[r] = label /\ pc[r] = "idle"
         /\ \A s \in Requests : s # r => pc'[s] = pc[s] /\ fresh'[s] = fresh[s] /\ refresh'[s] = refresh[s]
         /\ age' = age /\ parent[issued + 1] = NoPair /\ root[issued + 1] = NoPair
  <1> USE BoundsAssumption
  <1>1. /\ issued' = issued + 1 /\ issued + 1 \in Pairs /\ issued \in Nat
        /\ parent' = [parent EXCEPT ![issued + 1] = o]
        /\ root' = [root EXCEPT ![issued + 1] = IF o = NoPair THEN issued + 1 ELSE root[o]]
        /\ fresh' = [fresh EXCEPT ![r] = issued + 1] /\ refresh' = [refresh EXCEPT ![r] = o]
        /\ pc' = [pc EXCEPT ![r] = label] /\ pc[r] = "idle" /\ age' = age
    BY DEF Issue, NewPair, TypeInv, BaseTypes, Pairs, At
  <1>2. parent[issued + 1] = NoPair /\ root[issued + 1] = NoPair
    BY <1>1 DEF TypeInv, TreeInv
  <1>3. QED
    BY <1>1, <1>2 DEF TypeInv, BaseTypes

\* A login issues a pair that descends from nobody and changes no key yet.
LEMMA LoginMoves ==
  ASSUME TypeInv, NEW r \in Requests, Login(r)
  PROVE  /\ At(r, "idle") /\ Issue(r, NoPair, "save") /\ NoPair \in 0..issued
         /\ UNCHANGED <<whitelist, hands, kept, contested, ended>>
  BY BoundsAssumption DEF Login, redis, history, NoPair, TypeInv, BaseTypes

\* A refresh that passed its check issues a pair for a token that is in the
\* whitelist; if another rotation of that token is under way, it is contested.
LEMMA CheckMoves ==
  ASSUME TypeInv, NEW r \in Requests, NEW o \in Pairs, Check(r, o)
  PROVE  /\ At(r, "idle") /\ Issue(r, o, "rotate") /\ o \in 1..issued /\ o \in 0..issued /\ o # NoPair
         /\ o \in whitelist /\ o \in hands /\ contested \subseteq contested'
         /\ (\E s \in Requests : Rotates(s, o)) => o \in contested'
         /\ UNCHANGED <<whitelist, hands, kept, ended>>
  BY DEF Check, Listed, redis, NoPair, TypeInv, BaseTypes, Pairs

\* What leaves the tokens of the login alone: time, the middleware, a
\* registration, and no step at all.
Idles ==
  /\ UNCHANGED <<issued, parent, root, hands, contested, ended>>
  /\ \A r \in Requests : pc[r] # "idle" => pc'[r] = pc[r] /\ fresh'[r] = fresh[r] /\ refresh'[r] = refresh[r]
  /\ \A r \in Requests : pc'[r] \in {"save", "rotate"} => pc[r] \in {"save", "rotate"}
  /\ whitelist' \subseteq whitelist

\* Every other step neither issues a pair nor writes a key.
LEMMA IdlesCases ==
  ASSUME TypeInv, [Next]_vars
  PROVE  \/ Idles
         \/ \E r \in Requests : Login(r) \/ Serve(r)
         \/ \E r \in Requests, o \in Pairs : Check(r, o)
  <1>1. CASE UNCHANGED vars
    BY <1>1 DEF vars, tokens, redis, request, history, Idles
  <1>2. ASSUME NEW r \in Requests, Register(r) PROVE Idles
    BY <1>2 DEF Register, tokens, redis, request, history, Idles
  <1>3. ASSUME NEW r \in Requests, NEW p \in Pairs, NEW q \in Pairs \cup {NoPair}, Guard(r, p, q) PROVE Idles
    <2>1. /\ UNCHANGED <<issued, parent, root, hands, contested, ended, whitelist, fresh>> /\ pc[r] = "idle"
          /\ pc' = [pc EXCEPT ![r] = "revoke"] /\ refresh' = [refresh EXCEPT ![r] = q]
      BY <1>3 DEF Guard, tokens, redis, history, At
    <2>2. QED
      BY <2>1 DEF Idles, TypeInv, BaseTypes
  <1>4. ASSUME NEW p \in Pairs, GrowOld(p) \/ KeyExpires(p) PROVE Idles
    BY <1>4 DEF GrowOld, KeyExpires, Strike, tokens, redis, request, history, Idles
  <1>5. QED
    BY <1>1, <1>2, <1>3, <1>4, StepCases

\* A rotation that ends has struck the old token, or contested it.
LEMMA SpendingEnds ==
  ASSUME TypeInv, NEW r \in Requests, NEW o \in Pairs, Spends(r, o), Serve(r), o \notin contested'
  PROVE  Spends(r, o)' \/ o \notin whitelist'
  <1>1. CASE Rotate(r)
    BY <1>1 DEF Rotate, Spends, Goto, TypeInv, BaseTypes
  <1>2. CASE Drop(r)
    BY <1>2 DEF Drop, Strike, Spends
  <1>3. QED
    BY <1>1, <1>2 DEF Serve, Save, Answer, Revoke, Forget, At, Spends

\* Every step keeps it that a token is spent once.
LEMMA SpendStep == TypeInv /\ SpendInv /\ [Next]_vars => SpendInv'
  <1> SUFFICES ASSUME TypeInv, SpendInv, [Next]_vars PROVE SpendInv'
    OBVIOUS
  <1>1. CASE Idles
    BY <1>1 DEF Idles, SpendInv, Spends
  <1>2. ASSUME NEW r \in Requests, Serve(r) PROVE SpendInv'
    <2>1. SUFFICES ASSUME NEW o \in Pairs, o \notin contested'
                   PROVE  /\ \A p, q \in Pairs : parent'[p] = o /\ parent'[q] = o => p = q
                          /\ \A p \in Pairs : parent'[p] = o /\ o \in whitelist' =>
                               \E s \in Requests : Spends(s, o)'
      BY DEF SpendInv
    <2>2. parent' = parent /\ o \notin contested
      BY <1>2, <2>1, ServeMoves
    <2>3. ASSUME NEW p \in Pairs, parent[p] = o, o \in whitelist' PROVE \E s \in Requests : Spends(s, o)'
      <3>1. o \in hands
        BY <2>3, ParentInHands DEF Pairs, NoPair
      <3>2. o \in whitelist
        BY <1>2, <2>3, <3>1, ServeKeys DEF TypeInv, FreshInv
      <3>3. PICK s \in Requests : Spends(s, o)
        BY <2>2, <2>3, <3>2 DEF SpendInv
      <3>4. CASE s = r
        BY <1>2, <2>1, <2>3, <3>3, <3>4, SpendingEnds
      <3>5. CASE s # r
        BY <1>2, <3>3, <3>5, ServeMoves DEF Spends, Finish, TypeInv, BaseTypes
      <3>6. QED
        BY <3>4, <3>5
    <2>4. QED
      BY <2>2, <2>3 DEF SpendInv
  <1>3. ASSUME NEW r \in Requests, NEW o \in 0..issued, NEW label \in {"save", "rotate"},
               At(r, "idle"), Issue(r, o, label), whitelist' = whitelist, contested \subseteq contested',
               o # NoPair => label = "rotate" /\ (o \in contested' \/ \A s \in Requests : ~Rotates(s, o)),
               o # NoPair => o \in whitelist
        PROVE  SpendInv'
    <2>1. SUFFICES ASSUME NEW a \in Pairs, a \notin contested'
                   PROVE  /\ \A p, q \in Pairs : parent'[p] = a /\ parent'[q] = a => p = q
                          /\ \A p \in Pairs : parent'[p] = a /\ a \in whitelist' =>
                               \E s \in Requests : Spends(s, a)'
      BY DEF SpendInv
    <2>2. a \notin contested /\ a # NoPair
      BY <1>3, <2>1 DEF Pairs, NoPair
    <2>3. CASE a # o
      <3>1. \A p \in Pairs : parent'[p] = a => parent[p] = a
        BY <1>3, <2>2, <2>3, IssueMoves
      <3>2. \A s \in Requests : Spends(s, a) => Spends(s, a)'
        BY <1>3, IssueMoves DEF Spends
      <3>3. QED
        BY <1>3, <2>2, <3>1, <3>2 DEF SpendInv
    <2>4. CASE a = o
      <3>1. \A s \in Requests : ~Spends(s, a)
        BY <1>3, <2>1, <2>2, <2>4 DEF Rotates, Spends
      <3>2. \A p \in Pairs : parent[p] # a
        BY <1>3, <2>2, <2>4, <3>1 DEF SpendInv
      <3>3. \A p \in Pairs : parent'[p] = a => p = issued + 1
        BY <1>3, <3>2, IssueMoves
      <3>4. Spends(r, a)'
        BY <1>3, <2>2, <2>4, IssueMoves DEF Spends
      <3>5. QED
        BY <3>3, <3>4
    <2>5. QED
      BY <2>3, <2>4
  <1>4. ASSUME NEW r \in Requests, Login(r) PROVE SpendInv'
    BY <1>3, <1>4, LoginMoves
  <1>5. ASSUME NEW r \in Requests, NEW o \in Pairs, Check(r, o) PROVE SpendInv'
    BY <1>3, <1>5, CheckMoves
  <1>6. QED
    BY <1>1, <1>2, <1>4, <1>5, IdlesCases

\* The token a rotation of which begins is its login's last one, unless it is
\* contested.
LEMMA ChainStep == TypeInv /\ SpendInv /\ ChainInv /\ [Next]_vars => ChainInv'
  <1> SUFFICES ASSUME TypeInv, SpendInv, ChainInv, [Next]_vars PROVE ChainInv'
    OBVIOUS
  <1>1. ASSUME UNCHANGED <<issued, parent, root>>, contested \subseteq contested' PROVE ChainInv'
    BY <1>1 DEF ChainInv, Uncontested
  <1>2. CASE Idles
    BY <1>1, <1>2 DEF Idles
  <1>3. ASSUME NEW r \in Requests, Serve(r) PROVE ChainInv'
    BY <1>1, <1>3, ServeMoves
  <1>4. ASSUME NEW r \in Requests, NEW o \in 0..issued, NEW label,
               At(r, "idle"), Issue(r, o, label), contested \subseteq contested',
               o # NoPair => o \in whitelist /\ ((\E s \in Requests : Rotates(s, o)) => o \in contested')
        PROVE  ChainInv'
    <2> DEFINE n == issued + 1
    <2>1. SUFFICES ASSUME NEW p \in 1..issued', NEW q \in 1..issued', p < q, root'[p] = root'[q],
                          Uncontested(root[p])'
                   PROVE  \E c \in 1..issued' : parent'[c] = p
      BY DEF ChainInv
    <2>2. issued' = n /\ issued \in Nat /\ n \in Pairs /\ p \in 1..issued /\ p # n /\ 1..issued \subseteq Pairs
          /\ 1..issued \subseteq 1..issued' /\ n \in 1..issued'
      <3>1. issued' = n /\ issued \in Nat /\ n \in Pairs
        BY <1>4, IssueMoves
      <3>2. p \in 1..issued /\ p # n /\ 1..issued \subseteq 1..issued' /\ n \in 1..issued'
        BY <2>1, <3>1
      <3>3. 1..issued \subseteq Pairs
        BY <3>1, BoundsAssumption DEF Pairs
      <3>4. QED
        BY <3>1, <3>2, <3>3
    <2>3. root'[p] = root[p] /\ root[p] \in 1..p /\ root[p] # NoPair /\ root[p] # n
      BY <1>4, <2>2, IssueMoves DEF TypeInv, TreeInv, NoPair
    <2>4. Uncontested(root[p])
      <3>1. ASSUME NEW t \in Pairs, root[t] = root[p] PROVE t \notin contested
        <4>1. root'[t] = root'[p]
          BY <1>4, <2>2, <2>3, <3>1, IssueMoves
        <4>2. QED
          BY <1>4, <2>1, <4>1 DEF Uncontested
      <3>2. QED
        BY <3>1 DEF Uncontested
    <2>5. \A a \in 1..issued : (\E c \in 1..issued : parent[c] = a) => \E c \in 1..issued' : parent'[c] = a
      <3>1. \A c \in 1..issued : parent'[c] = parent[c]
        BY <1>4, <2>2, IssueMoves
      <3>2. QED
        BY <2>2, <3>1
    <2>6. CASE q # n
      <3>1. q \in 1..issued /\ root'[q] = root[q]
        BY <1>4, <2>1, <2>2, <2>6, IssueMoves
      <3>2. QED
        BY <2>1, <2>2, <2>3, <2>4, <2>5, <3>1 DEF ChainInv
    <2>7. CASE q = n
      <3>1. o # NoPair /\ root[o] = root[p] /\ o \in 1..issued
        <4>1. root'[n] = (IF o = NoPair THEN n ELSE root[o])
          BY <1>4, IssueMoves
        <4>2. o # NoPair /\ root[o] = root[p]
          BY <2>1, <2>3, <2>7, <4>1
        <4>3. QED
          BY <2>2, <4>2 DEF NoPair
      <3>2. CASE p = o
        BY <1>4, <2>2, <3>2, IssueMoves
      <3>3. CASE p < o
        BY <2>2, <2>4, <2>5, <3>1, <3>3 DEF ChainInv
      <3>4. CASE o < p
        <4>1. PICK c \in 1..issued : parent[c] = o
          BY <2>2, <2>4, <3>1, <3>4 DEF ChainInv
        <4>2. o \in Pairs /\ c \in Pairs /\ o \notin contested
          BY <2>2, <2>4, <3>1 DEF Uncontested
        <4>3. PICK s \in Requests : Spends(s, o)
          BY <1>4, <3>1, <4>1, <4>2 DEF SpendInv
        <4>4. o \in contested'
          BY <1>4, <3>1, <4>3 DEF Spends, Rotates
        <4>5. root'[o] = root[o]
          BY <1>4, <2>2, <3>1, IssueMoves
        <4>6. QED
          BY <2>1, <2>3, <3>1, <4>2, <4>4, <4>5 DEF Uncontested
      <3>5. QED
        BY <2>2, <3>1, <3>2, <3>3, <3>4
    <2>8. QED
      BY <2>6, <2>7
  <1>5. ASSUME NEW r \in Requests, Login(r) PROVE ChainInv'
    BY <1>4, <1>5, LoginMoves
  <1>6. ASSUME NEW r \in Requests, NEW o \in Pairs, Check(r, o) PROVE ChainInv'
    BY <1>4, <1>6, CheckMoves
  <1>7. QED
    BY <1>2, <1>3, <1>5, <1>6, IdlesCases

-----------------------------------------------------------------------------
(* A logout ends its login.                                                *)

\* A pair of an uncontested login that is neither the last one nor followed
\* by one in the user's hands.
LEMMA LastOfLogin ==
  ASSUME TypeInv, SpendInv, ChainInv, NEW q \in hands, q \in 1..issued, Settled(q)
  PROVE  /\ \A s \in Requests : fresh[s] # NoPair => root[fresh[s]] # root[q]
         /\ \A p \in whitelist : p # q => root[p] # root[q]
  <1> USE BoundsAssumption
  <1>1. 1..issued \subseteq Pairs /\ issued \in Nat /\ whitelist \subseteq 1..issued
    BY DEF TypeInv, BaseTypes, Pairs
  <1>2. Uncontested(root[q]) /\ \A p \in Pairs : root[p] = root[q] => p <= q
    BY DEF Settled, Uncontested
  <1>3. ASSUME NEW p \in 1..issued, root[p] = root[q], p # q
        PROVE  p \in hands /\ \E c \in 1..issued : parent[c] = p
    <2>1. p < q
      BY <1>1, <1>2, <1>3
    <2>2. PICK c \in 1..issued : parent[c] = p
      BY <1>2, <1>3, <2>1 DEF ChainInv
    <2>3. p \in hands
      BY <1>1, <1>3, <2>2, ParentInHands DEF NoPair
    <2>4. QED
      BY <2>2, <2>3
  <1>4. ASSUME NEW s \in Requests, fresh[s] # NoPair PROVE root[fresh[s]] # root[q]
    <2>1. fresh[s] \in 1..issued /\ fresh[s] \notin hands
      BY <1>1, <1>4 DEF TypeInv, BaseTypes, FreshInv, NoPair
    <2>2. QED
      BY <1>3, <2>1
  <1>5. ASSUME NEW p \in whitelist, p # q, root[p] = root[q] PROVE FALSE
    <2>1. PICK c \in 1..issued : parent[c] = p
      BY <1>1, <1>3, <1>5
    <2>2. p \in Pairs /\ c \in Pairs /\ p \notin contested
      BY <1>1, <1>2, <1>5 DEF Uncontested
    <2>3. PICK s \in Requests : Spends(s, p)
      BY <1>5, <2>1, <2>2 DEF SpendInv
    <2>4. fresh[s] # NoPair /\ parent[fresh[s]] = p
      BY <2>3 DEF Spends, TypeInv, FreshInv
    <2>5. fresh[s] \in Pairs /\ p # NoPair
      BY <1>1, <1>5, <2>4 DEF TypeInv, BaseTypes, NoPair
    <2>6. root[fresh[s]] = root[p]
      BY <2>4, <2>5, ParentInHands
    <2>7. QED
      BY <1>4, <1>5, <2>4, <2>6
  <1>6. QED
    BY <1>4, <1>5

\* Every step keeps it that an ended login stays ended.
LEMMA EndStep == TypeInv /\ SpendInv /\ ChainInv /\ EndInv /\ [Next]_vars => EndInv'
  <1> SUFFICES ASSUME TypeInv, SpendInv, ChainInv, EndInv, [Next]_vars PROVE EndInv'
    OBVIOUS
  <1>0. ended \subseteq 1..issued /\ whitelist \subseteq 1..issued /\ issued \in Nat
    BY BoundsAssumption DEF TypeInv, BaseTypes
  <1>1. CASE Idles
    <2>1. \A r \in Requests : pc'[r] \in {"save", "rotate"} =>
            pc[r] \in {"save", "rotate"} /\ fresh'[r] = fresh[r]
      BY <1>1 DEF Idles
    <2>2. QED
      BY <1>1, <2>1 DEF Idles, EndInv
  <1>2. ASSUME NEW r \in Requests, Serve(r) PROVE EndInv'
    <2>1. root' = root
      BY <1>2, ServeMoves
    <2>2. \A s \in Requests : pc'[s] \in {"save", "rotate"} =>
            s # r /\ pc[s] \in {"save", "rotate"} /\ fresh'[s] = fresh[s] /\ fresh[s] # NoPair
      BY <1>2, ServeMoves DEF Finish, TypeInv, BaseTypes, FreshInv
    <2>3. ASSUME NEW l \in ended
          PROVE  /\ \A p \in whitelist' : root'[p] # l
                 /\ \A s \in Requests : pc'[s] \in {"save", "rotate"} => root'[fresh'[s]] # l
      BY <1>2, <2>1, <2>2, ServeKeys DEF EndInv
    <2>4. ASSUME NEW l \in ended', l \notin ended
          PROVE  /\ \A p \in whitelist' : root'[p] # l
                 /\ \A s \in Requests : pc'[s] \in {"save", "rotate"} => root'[fresh'[s]] # l
      <3>1. /\ refresh[r] # NoPair /\ l = root[refresh[r]] /\ Settled(refresh[r])
            /\ whitelist' = whitelist \ {refresh[r]}
        BY <1>2, <2>4 DEF Serve, Save, Answer, Rotate, Drop, Revoke, Forget, Strike, history
      <3>2. refresh[r] \in hands /\ refresh[r] \in 1..issued
        BY <3>1 DEF TypeInv, FreshInv, BaseTypes
      <3>3. /\ \A s \in Requests : fresh[s] # NoPair => root[fresh[s]] # l
            /\ \A p \in whitelist : p # refresh[r] => root[p] # l
        BY <3>1, <3>2, LastOfLogin
      <3>4. QED
        BY <2>1, <2>2, <3>1, <3>3
    <2>5. QED
      BY <2>3, <2>4 DEF EndInv
  <1>3. ASSUME NEW r \in Requests, NEW o \in 0..issued, NEW label,
               At(r, "idle"), Issue(r, o, label), UNCHANGED <<whitelist, ended>>,
               o # NoPair => o \in whitelist
        PROVE  EndInv'
    <2>1. SUFFICES ASSUME NEW l \in ended
                   PROVE  /\ \A p \in whitelist : root'[p] # l
                          /\ \A s \in Requests : pc'[s] \in {"save", "rotate"} => root'[fresh'[s]] # l
      BY <1>3 DEF EndInv
    <2>2. \A p \in 1..issued : p # issued + 1 /\ p \in Pairs /\ root'[p] = root[p]
      <3>1. \A p \in 1..issued : p # issued + 1 /\ p \in Pairs
        BY <1>0, BoundsAssumption DEF Pairs, TypeInv, BaseTypes
      <3>2. QED
        BY <1>3, <3>1, IssueMoves
    <2>3. root'[issued + 1] # l
      <3>1. root'[issued + 1] = (IF o = NoPair THEN issued + 1 ELSE root[o])
        BY <1>3, IssueMoves
      <3>2. issued + 1 # l
        BY <1>0, <2>1
      <3>3. o # NoPair => root[o] # l
        BY <1>3, <2>1 DEF EndInv
      <3>4. QED
        BY <3>1, <3>2, <3>3
    <2>4. ASSUME NEW s \in Requests, s # r, pc'[s] \in {"save", "rotate"} PROVE root'[fresh'[s]] # l
      <3>1. pc[s] \in {"save", "rotate"} /\ fresh'[s] = fresh[s]
        BY <1>3, <2>4, IssueMoves
      <3>2. fresh[s] \in 1..issued
        BY <3>1 DEF TypeInv, BaseTypes, FreshInv, NoPair
      <3>3. QED
        BY <2>1, <2>2, <3>1, <3>2 DEF EndInv
    <2>5. fresh'[r] = issued + 1
      BY <1>3, IssueMoves
    <2>6. QED
      BY <1>0, <2>1, <2>2, <2>3, <2>4, <2>5 DEF EndInv
  <1>4. ASSUME NEW r \in Requests, Login(r) PROVE EndInv'
    BY <1>3, <1>4, LoginMoves
  <1>5. ASSUME NEW r \in Requests, NEW o \in Pairs, Check(r, o) PROVE EndInv'
    BY <1>3, <1>5, CheckMoves
  <1>6. QED
    BY <1>1, <1>2, <1>4, <1>5, IdlesCases

-----------------------------------------------------------------------------
(* A login keeps a refresh token.                                          *)

Lives(l) == \E p \in Pairs : root[p] = l /\ Usable(p) /\ Reaches(p)

\* What is reachable stays so, but for what a request gives up.
LEMMA ReachMoves ==
  ASSUME TypeInv, NEW r \in Requests, Serve(r), NEW p \in Pairs, Reaches(p)
  PROVE  Reaches(p)' \/ (pc[r] = "answer" /\ fresh[r] = p /\ hands' = hands)
  <1>1. hands \subseteq hands' /\ \A s \in Requests : s # r => pc'[s] = pc[s] /\ fresh'[s] = fresh[s]
    BY ServeMoves DEF Finish, TypeInv, BaseTypes
  <1>2. CASE p \in hands
    BY <1>1, <1>2 DEF Reaches
  <1>3. ASSUME NEW s \in Requests, s # r, fresh[s] = p, pc[s] \in {"drop", "answer"} PROVE Reaches(p)'
    BY <1>1, <1>3 DEF Reaches
  <1>4. CASE fresh[r] = p /\ pc[r] = "drop"
    BY <1>4, ServeMoves DEF Reaches, TypeInv, BaseTypes
  <1>5. CASE fresh[r] = p /\ pc[r] = "answer"
    BY <1>5, ServeMoves DEF Reaches, TypeInv, BaseTypes
  <1>6. QED
    BY <1>2, <1>3, <1>4, <1>5 DEF Reaches

\* A step of a request leaves every kept login a token that lives.
LEMMA KeptServes ==
  ASSUME TypeInv, AlwaysOneRefresh, NEW r \in Requests, Serve(r), NEW l \in kept'
  PROVE  Lives(l)'
  <1> USE BoundsAssumption
  <1>1. UNCHANGED <<root, age, parent>>
    BY ServeMoves
  <1>2. ASSUME NEW p \in Pairs, root[p] = l, Usable(p), Reaches(p), p \in whitelist', Reaches(p)'
        PROVE  Lives(l)'
    BY <1>1, <1>2 DEF Lives, Usable, Expired
  <1>3. CASE l \notin kept
    <2>1. /\ Answer(r) /\ parent[fresh[r]] = NoPair /\ Usable(fresh[r]) /\ l = fresh[r]
          /\ hands' = hands \cup {fresh[r]} /\ whitelist' = whitelist
      BY <1>3 DEF Serve, Save, Answer, Rotate, Drop, Revoke, Forget, history, redis
    <2>2. l \in 1..issued /\ root[l] = l /\ l \in Pairs
      BY <2>1 DEF Answer, At, TypeInv, FreshInv, BaseTypes, TreeInv, NoPair, Pairs
    <2>3. Usable(l)' /\ Reaches(l)' /\ root'[l] = l
      BY <1>1, <2>1, <2>2 DEF Usable, Expired, Reaches
    <2>4. QED
      BY <2>2, <2>3 DEF Lives
  <1>4. CASE l \in kept
    <2>1. PICK p \in Pairs : root[p] = l /\ Usable(p) /\ Reaches(p)
      BY <1>4 DEF AlwaysOneRefresh
    <2>2. Reaches(p)'
      <3>1. ASSUME pc[r] = "answer", fresh[r] = p, hands' = hands PROVE FALSE
        <4>1. Answer(r)
          BY <3>1 DEF Serve, Save, Answer, Rotate, Drop, Revoke, Forget, At
        <4>2. p \notin hands
          BY <3>1 DEF TypeInv, FreshInv
        <4>3. kept' = kept \ {root[p]}
          BY <3>1, <4>1, <4>2 DEF Answer
        <4>4. QED
          BY <2>1, <4>3
      <3>2. QED
        BY <2>1, <3>1, ReachMoves
    <2>3. CASE p \in whitelist'
      BY <1>2, <2>1, <2>2, <2>3
    <2>4. CASE p \notin whitelist'
      <3>1. pc[r] \in {"drop", "forget"} /\ refresh[r] = p
        BY <2>1, <2>4, ServeKeys DEF Usable
      <3>2. CASE Forget(r)
        <4>1. p # NoPair
          BY <2>1 DEF Pairs, NoPair
        <4>2. QED
          BY <2>1, <3>1, <3>2, <4>1 DEF Forget
      <3>3. CASE Drop(r)
        <4>1. fresh[r] # NoPair /\ parent[fresh[r]] = p /\ p # NoPair /\ pc'[r] = "answer" /\ fresh'[r] = fresh[r]
          BY <2>1, <3>1, <3>3, ServeMoves DEF Drop, At, TypeInv, BaseTypes, FreshInv, Pairs, NoPair
        <4>2. fresh[r] \in Pairs /\ fresh[r] \in 1..issued
          BY <4>1 DEF TypeInv, BaseTypes, Pairs, NoPair
        <4>3. root[fresh[r]] = l /\ p < fresh[r]
          BY <2>1, <4>1, <4>2, ParentInHands DEF TypeInv, TreeInv
        <4>4. ~Expired(fresh[r])
          BY <2>1, <4>2, <4>3 DEF TypeInv, AgeInv, BaseTypes, Ages, Usable, Expired
        <4>5. fresh[r] \in whitelist /\ fresh[r] # p
          BY <3>1, <3>3, <4>3, <4>4 DEF Drop, At, TypeInv, FreshInv, Pairs
        <4>6. fresh[r] \in whitelist'
          BY <3>1, <4>5, ServeKeys
        <4>7. PICK f \in Pairs : f = fresh[r]
          BY <4>2
        <4>8. Reaches(f)' /\ Usable(f)' /\ root'[f] = l
          BY <1>1, <4>1, <4>3, <4>4, <4>6, <4>7 DEF Reaches, Usable, Expired
        <4>9. QED
          BY <4>8 DEF Lives
      <3>4. QED
        BY <3>1, <3>2, <3>3 DEF Serve, Save, Answer, Rotate, Revoke, At
    <2>5. QED
      BY <2>3, <2>4
  <1>5. QED
    BY <1>3, <1>4

\* Every step leaves every kept login a token that lives.
LEMMA KeptStep == TypeInv /\ AlwaysOneRefresh /\ [Next]_vars => AlwaysOneRefresh'
  <1> SUFFICES ASSUME TypeInv, AlwaysOneRefresh, [Next]_vars PROVE AlwaysOneRefresh'
    OBVIOUS
  <1>0. AlwaysOneRefresh' <=> \A l \in kept' : Lives(l)'
    BY DEF AlwaysOneRefresh, Lives
  <1>1. ASSUME kept' \subseteq kept,
               \A p \in Pairs : root[p] \in kept' /\ Usable(p) /\ Reaches(p) =>
                 root'[p] = root[p] /\ Usable(p)' /\ Reaches(p)'
        PROVE  AlwaysOneRefresh'
    BY <1>1 DEF AlwaysOneRefresh
  <1>2. CASE UNCHANGED <<root, age, whitelist, hands, fresh, kept, pc>>
    BY <1>1, <1>2 DEF Usable, Expired, Reaches
  <1>3. ASSUME NEW r \in Requests, NEW o \in 0..issued, NEW label, At(r, "idle"), Issue(r, o, label),
               UNCHANGED <<whitelist, hands, kept>>
        PROVE  AlwaysOneRefresh'
    <2>1. SUFFICES ASSUME NEW p \in Pairs, Usable(p), Reaches(p)
                   PROVE  root'[p] = root[p] /\ Usable(p)' /\ Reaches(p)'
      BY <1>1, <1>3
    <2>2. p # issued + 1
      BY <2>1, BoundsAssumption DEF Usable, TypeInv, BaseTypes
    <2>3. root'[p] = root[p] /\ age' = age
      BY <1>3, <2>2, IssueMoves
    <2>4. Reaches(p)'
      BY <1>3, <2>1, IssueMoves DEF Reaches
    <2>5. QED
      BY <1>3, <2>1, <2>3, <2>4 DEF Usable, Expired
  <1>4. ASSUME NEW r \in Requests, Login(r) PROVE AlwaysOneRefresh'
    BY <1>3, <1>4, LoginMoves
  <1>5. ASSUME NEW r \in Requests, NEW o \in Pairs, Check(r, o) PROVE AlwaysOneRefresh'
    BY <1>3, <1>5, CheckMoves
  <1>6. ASSUME NEW r \in Requests, Serve(r) PROVE AlwaysOneRefresh'
    BY <1>0, <1>6, KeptServes
  <1>7. ASSUME NEW r \in Requests, NEW p \in Pairs, NEW q \in Pairs \cup {NoPair}, Guard(r, p, q)
        PROVE  AlwaysOneRefresh'
    <2>1. UNCHANGED <<root, age, whitelist, hands, fresh, kept>> /\ pc[r] = "idle" /\ pc' = [pc EXCEPT ![r] = "revoke"]
      BY <1>7 DEF Guard, tokens, redis, history, At
    <2>2. \A a \in Pairs : Reaches(a) => Reaches(a)'
      BY <2>1 DEF Reaches, TypeInv, BaseTypes
    <2>3. QED
      BY <1>1, <2>1, <2>2 DEF Usable, Expired
  <1>8. ASSUME NEW p \in Pairs, GrowOld(p) PROVE AlwaysOneRefresh'
    <2>1. /\ UNCHANGED <<root, whitelist, hands, fresh, pc>> /\ age' = [age EXCEPT ![p] = @ + 1]
          /\ kept' = IF age[p] = 1 /\ p \in whitelist THEN kept \ {root[p]} ELSE kept
      BY <1>8 DEF GrowOld, redis, request
    <2>2. \A a \in Pairs : Reaches(a) => Reaches(a)'
      BY <2>1 DEF Reaches
    <2>3. ASSUME NEW a \in Pairs, root[a] \in kept', Usable(a) PROVE Usable(a)'
      <3>1. CASE a = p
        BY <2>1, <2>3, <3>1 DEF Usable, Expired, TypeInv, BaseTypes, Ages
      <3>2. CASE a # p
        BY <2>1, <2>3, <3>2 DEF Usable, Expired, TypeInv, BaseTypes
      <3>3. QED
        BY <3>1, <3>2
    <2>4. QED
      BY <1>1, <2>1, <2>2, <2>3
  <1>9. ASSUME NEW p \in Pairs, KeyExpires(p) PROVE AlwaysOneRefresh'
    <2>1. UNCHANGED <<root, age, hands, fresh, pc, kept>> /\ \A a \in whitelist : a \in whitelist' \/ Expired(a)
      BY <1>9 DEF KeyExpires, Strike, tokens, request, history
    <2>2. QED
      BY <1>1, <2>1 DEF Usable, Expired, Reaches
  <1>10. CASE UNCHANGED vars \/ \E r \in Requests : Register(r)
    BY <1>2, <1>10 DEF Register, vars, tokens, redis, request, history
  <1>11. QED
    BY <1>4, <1>5, <1>6, <1>7, <1>8, <1>9, <1>10, StepCases

-----------------------------------------------------------------------------
(* The theorems.                                                           *)

\* It all holds at first.
LEMMA AuthInit == Init => AuthInv
  <1> SUFFICES ASSUME Init PROVE AuthInv
    OBVIOUS
  <1> USE BoundsAssumption DEF Init
  <1>1. BaseTypes
    BY DEF BaseTypes, Labels, Ages, Pairs, NoPair
  <1>2. FreshInv
    BY DEF FreshInv
  <1>3. TreeInv /\ AgeInv
    BY DEF TreeInv, AgeInv
  <1>4. SpendInv
    BY DEF SpendInv, NoPair, Pairs
  <1>5. ChainInv /\ EndInv /\ AlwaysOneRefresh
    BY DEF ChainInv, EndInv, AlwaysOneRefresh
  <1>6. QED
    BY <1>1, <1>2, <1>3, <1>4, <1>5 DEF AuthInv, TypeInv

(* The inductive invariant: types, the tree of pairs, who spends a token,  *)
(* and what a logout leaves.                                               *)
THEOREM AuthInvariance == Spec => []AuthInv
  <1>1. AuthInv /\ [Next]_vars => AuthInv'
    BY TypeStep, SpendStep, ChainStep, EndStep, KeptStep DEF AuthInv
  <1>2. QED
    BY <1>1, AuthInit, PTL DEF Spec

(* Every variable keeps its type; no two requests issue the same pair, and *)
(* a pair goes back to an older one or to none.                            *)
THEOREM AuthTypeCorrect == Spec => []TypeOK
  <1>1. AuthInv => TypeOK
    BY TypesHold DEF AuthInv
  <1>2. QED
    BY <1>1, AuthInvariance, PTL

(* With any number of requests, a refresh token is spent once unless two   *)
(* rotations of it overlapped or one failed (auth_handler.go:225-233).     *)
THEOREM TokensAreSpentOnce == Spec => []SpentOnce
  <1>1. AuthInv => SpentOnce
    <2> SUFFICES ASSUME AuthInv, NEW o \in Pairs, o \notin contested
                 PROVE  Cardinality({p \in Pairs : parent[p] = o}) <= 1
      BY DEF SpentOnce
    <2> DEFINE issues == {p \in Pairs : parent[p] = o}
    <2>1. \A p, q \in issues : p = q
      BY DEF AuthInv, SpendInv
    <2>2. CASE issues = {}
      BY <2>2, FS_EmptySet
    <2>3. CASE issues # {}
      <3>1. PICK p : issues = {p}
        BY <2>1, <2>3
      <3>2. Cardinality({p}) = 1
        BY FS_Singleton, Zenon
      <3>3. QED
        BY <3>1, <3>2
    <2>4. QED
      BY <2>2, <2>3
  <1>2. QED
    BY <1>1, AuthInvariance, PTL

(* A logout that named the last token of an uncontested login leaves       *)
(* nothing of it in the whitelist, then or later (auth_handler.go:331-340).*)
THEOREM LogoutsEnd == Spec => []LogoutEnds
  <1>1. AuthInv => LogoutEnds
    BY DEF AuthInv, EndInv, LogoutEnds
  <1>2. QED
    BY <1>1, AuthInvariance, PTL

(* A user who got a working refresh token has one or is about to, through  *)
(* rotations that overlap or fail at any call (auth_handler.go:286-289).   *)
THEOREM AUserKeepsARefresh == Spec => []AlwaysOneRefresh
  <1>1. AuthInv => AlwaysOneRefresh
    BY DEF AuthInv
  <1>2. QED
    BY <1>1, AuthInvariance, PTL
=============================================================================
