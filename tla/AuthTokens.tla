---------------------------- MODULE AuthTokens ----------------------------
(***************************************************************************)
(* The gateway's accounts and tokens: register, login, refresh, logout and *)
(* the middleware that admits an access token.  A login or a refresh       *)
(* issues a pair, an access and a refresh token; the refresh token works   *)
(* while its id is in the whitelist auth:refresh:, the access token until  *)
(* its id is in the blacklist auth:revoked:.  Every call to MongoDB or     *)
(* Redis is a step, and the requests of all replicas interleave.           *)
(*                                                                         *)
(* Accounts share no token, no key and no document: one is modelled.       *)
(* Bad input, wrong passwords and forged tokens are turned away before     *)
(* they reach any state, and are left out.                                 *)
(***************************************************************************)
EXTENDS Naturals, FiniteSets

CONSTANTS
  Requests,   \* requests served at a time
  MaxPairs,   \* bound of the pairs issued
  MaxMishaps  \* bound of failed calls and of answers that are lost

ASSUME BoundsAssumption == MaxPairs \in Nat \ {0} /\ MaxMishaps \in Nat

\* Pairs are numbered as they are issued.
Pairs == 1..MaxPairs
NoPair == 0

VARIABLES
  docs,      \* MongoDB: documents in users that have the phone
  issued,    \* pairs issued so far
  parent,    \* the pair whose refresh token a pair was issued for, or NoPair
  root,      \* the login a pair goes back to, by its first pair
  age,       \* how much of the life of a pair is over, see below
  whitelist, \* Redis: auth:refresh:<id of the refresh token>
  revoked,   \* Redis: auth:revoked:<id of the access token>
  pc, access, refresh, fresh,  \* each request, its tokens, the pair it issues
  hands,     \* the pairs the user has been given
  kept,      \* history: logins that must still have a refresh token
  contested, \* history: tokens two rotations ran for, or one that failed
  ended,     \* history: logins that a logout ended
  mishaps

redis   == <<whitelist, revoked>>
tokens  == <<issued, parent, root, age>>
request == <<pc, access, refresh, fresh>>
history == <<kept, contested, ended>>
vars == <<docs, tokens, redis, request, hands, history, mishaps>>

\* 0: all is valid; 1: the access token has expired; 2: so has the refresh
\* token.  Parse takes a token for 30 s more, while its keys may be gone; what
\* is older than that is refused, and is not told apart from it here.
Ages == 0..2
AccessParses(p) == age[p] <= 1
Expired(p) == age[p] = 2

Labels == {"idle", "save", "rotate", "drop", "answer", "revoke", "forget"}

TypeOK ==
  /\ docs \in 0..1 /\ issued \in 0..MaxPairs
  /\ parent \in [Pairs -> 0..MaxPairs] /\ root \in [Pairs -> 0..MaxPairs]
  /\ age \in [Pairs -> Ages]
  /\ whitelist \subseteq 1..issued /\ revoked \subseteq 1..issued /\ hands \subseteq 1..issued
  /\ pc \in [Requests -> Labels]
  /\ access \in [Requests -> 0..issued] /\ refresh \in [Requests -> 0..issued]
  /\ fresh \in [Requests -> 0..issued]
  /\ kept \subseteq Pairs /\ contested \subseteq Pairs
  /\ ended \subseteq Pairs /\ mishaps \in 0..MaxMishaps
  /\ \A r \in Requests : pc[r] \in {"save", "rotate", "drop", "answer"} => fresh[r] # NoPair
  /\ \A r, s \in Requests : fresh[r] = fresh[s] /\ fresh[r] # NoPair => r = s
  /\ \A p \in 1..issued : parent[p] < p /\ root[p] \in 1..p

Init ==
  /\ docs = 0 /\ issued = 0
  /\ parent = [p \in Pairs |-> NoPair] /\ root = [p \in Pairs |-> NoPair]
  /\ age = [p \in Pairs |-> 0]
  /\ whitelist = {} /\ revoked = {} /\ hands = {}
  /\ pc = [r \in Requests |-> "idle"]
  /\ access = [r \in Requests |-> NoPair] /\ refresh = [r \in Requests |-> NoPair]
  /\ fresh = [r \in Requests |-> NoPair]
  /\ kept = {} /\ contested = {} /\ ended = {}
  /\ mishaps = 0

-----------------------------------------------------------------------------

Mishap == mishaps < MaxMishaps /\ mishaps' = mishaps + 1
Smooth == UNCHANGED mishaps

At(r, label) == pc[r] = label
Goto(r, label) ==
  /\ pc' = [pc EXCEPT ![r] = label] /\ UNCHANGED <<access, refresh, fresh>>

\* The request is over, with its tokens.
Finish(r) ==
  /\ pc' = [pc EXCEPT ![r] = "idle"]
  /\ access' = [access EXCEPT ![r] = NoPair]
  /\ refresh' = [refresh EXCEPT ![r] = NoPair]
  /\ fresh' = [fresh EXCEPT ![r] = NoPair]

\* A mutation of NewPair: the id is the last one's.
SamePair == issued
NewPair == issued + 1

\* IssueAccessToken and IssueRefreshToken, for a login or for the token o.
Issue(r, o, label) ==
  LET p == NewPair IN
  /\ issued < MaxPairs /\ issued' = p
  /\ parent' = [parent EXCEPT ![p] = o]
  /\ root' = [root EXCEPT ![p] = IF o = NoPair THEN p ELSE root[o]]
  /\ fresh' = [fresh EXCEPT ![r] = p]
  /\ refresh' = [refresh EXCEPT ![r] = o]
  /\ pc' = [pc EXCEPT ![r] = label] /\ UNCHANGED <<access, age>>

-----------------------------------------------------------------------------
(* Register and login.                                                     *)

\* The unique index on phone.
Vacant == docs = 0

\* InsertOne: 201, 409 phone_taken, or 500 whether or not it was made.
Register(r) ==
  /\ At(r, "idle")
  /\ docs' = IF Vacant THEN docs + 1 ELSE docs
  /\ Smooth \/ Mishap
  /\ UNCHANGED <<tokens, redis, request, hands, history>>

\* FindByPhone finds the account, and the pair is issued.
Login(r) ==
  /\ At(r, "idle") /\ docs > 0 /\ Issue(r, NoPair, "save")
  /\ UNCHANGED <<docs, redis, hands, history, mishaps>>

Usable(p) == p \in whitelist /\ ~Expired(p)

Enlist(p) == whitelist' = whitelist \cup {p}
Strike(p) == whitelist' = whitelist \ {p}

\* SET of the whitelist key; its error is logged, and the pair handed out.
Save(r) ==
  /\ At(r, "save") /\ Goto(r, "answer")
  /\ \/ Enlist(fresh[r]) /\ (Smooth \/ Mishap)
     \/ Mishap /\ UNCHANGED whitelist
  /\ UNCHANGED <<docs, tokens, revoked, hands, history>>

\* The user gets the pair, or the answer is lost.
Answer(r) ==
  LET p == fresh[r] IN
  /\ At(r, "answer") /\ Finish(r)
  /\ \/ /\ hands' = hands \cup {p} /\ Smooth
        /\ kept' = IF parent[p] = NoPair /\ Usable(p) THEN kept \cup {p} ELSE kept
     \/ Mishap /\ kept' = kept \ {root[p]} /\ UNCHANGED hands
  /\ UNCHANGED <<docs, tokens, redis, contested, ended>>

-----------------------------------------------------------------------------
(* Refresh: check the old token, list the new one, strike the old one.     *)

Rotates(r, o) == refresh[r] = o /\ pc[r] \in {"rotate", "drop", "answer"}

\* A mutation of Listed: the signature is enough.
SignatureOnly(p) == TRUE
Listed(p) == p \in whitelist

\* Parse, then EXISTS of the old key, and the new pair is issued; a token
\* that is not listed, or a failed call, leads to nothing.
Check(r, o) ==
  /\ At(r, "idle") /\ o \in hands /\ Listed(o) /\ Issue(r, o, "rotate")
  /\ contested' = IF \E s \in Requests : Rotates(s, o)
                  THEN contested \cup {o} ELSE contested
  /\ UNCHANGED <<docs, redis, hands, kept, ended, mishaps>>

\* A mutation of Refused: as in a login, the error is only logged.
LoggedOnly(r) == Goto(r, "drop")

\* 500, and the user goes on with the old token.
Refused(r) == Finish(r)

\* SET of the new key.
Rotate(r) ==
  /\ At(r, "rotate")
  /\ \/ Enlist(fresh[r]) /\ Goto(r, "drop") /\ Smooth /\ UNCHANGED contested
     \/ /\ Mishap /\ Refused(r) /\ contested' = contested \cup {refresh[r]}
        /\ Enlist(fresh[r]) \/ UNCHANGED whitelist
  /\ UNCHANGED <<docs, tokens, revoked, hands, kept, ended>>

\* DEL of the old key; its error is only logged.
Drop(r) ==
  /\ At(r, "drop") /\ Goto(r, "answer")
  /\ \/ Strike(refresh[r]) /\ Smooth /\ UNCHANGED contested
     \/ /\ Mishap /\ contested' = contested \cup {refresh[r]}
        /\ Strike(refresh[r]) \/ UNCHANGED whitelist
  /\ UNCHANGED <<docs, tokens, revoked, hands, kept, ended>>

-----------------------------------------------------------------------------
(* The middleware, and logout.                                             *)

\* authRequired, in front of logout as of every other handler: Parse and
\* EXISTS of the blacklist key.  Logout may name a refresh token.
Guard(r, p, q) ==
  /\ At(r, "idle") /\ p \in hands /\ q \in hands \cup {NoPair}
  /\ AccessParses(p) /\ p \notin revoked
  /\ pc' = [pc EXCEPT ![r] = "revoke"]
  /\ access' = [access EXCEPT ![r] = p] /\ refresh' = [refresh EXCEPT ![r] = q]
  /\ UNCHANGED <<docs, tokens, redis, fresh, hands, history, mishaps>>

\* blacklistTTL is positive: the token has not expired, leeway aside.
Remaining(p) == age[p] = 0

\* SET of the blacklist key with what is left of the token's life.
Revoke(r) ==
  /\ At(r, "revoke")
  /\ \/ /\ Remaining(access[r]) /\ revoked' = revoked \cup {access[r]}
        /\ \/ Goto(r, "forget") /\ Smooth
           \/ Mishap /\ Finish(r)
     \/ Remaining(access[r]) /\ Mishap /\ Finish(r) /\ UNCHANGED revoked
     \/ ~Remaining(access[r]) /\ Goto(r, "forget") /\ Smooth /\ UNCHANGED revoked
  /\ UNCHANGED <<docs, tokens, whitelist, hands, history>>

\* Nobody else is at work on the login of p, and p is its last token.
Settled(p) ==
  /\ \A q \in Pairs : root[q] = root[p] => q <= p
  /\ \A q \in Pairs : root[q] = root[p] => q \notin contested

\* A mutation of Forget: the access token's id is struck off.
ForgetAccess(r) ==
  LET q == refresh[r]
      logins == IF q = NoPair THEN {} ELSE {root[q]} IN
  /\ At(r, "forget") /\ Finish(r) /\ Smooth
  /\ kept' = kept \ logins
  /\ ended' = IF q # NoPair /\ Settled(q) THEN ended \cup logins ELSE ended
  /\ UNCHANGED <<docs, tokens, redis, hands, contested>>

\* DEL of the whitelist key of the refresh token in the body, if there is
\* one; its error is ignored.
Forget(r) ==
  LET q == refresh[r]
      named == q # NoPair IN
  /\ At(r, "forget") /\ Finish(r)
  /\ \/ /\ named /\ Strike(q) /\ Smooth
        /\ kept' = kept \ {root[q]}
        /\ ended' = IF Settled(q) THEN ended \cup {root[q]} ELSE ended
     \/ /\ named /\ Mishap /\ (Strike(q) \/ UNCHANGED whitelist)
        /\ kept' = kept \ {root[q]} /\ UNCHANGED ended
     \/ ~named /\ Smooth /\ UNCHANGED <<whitelist, kept, ended>>
  /\ UNCHANGED <<docs, tokens, revoked, hands, contested>>

-----------------------------------------------------------------------------
(* Time.                                                                   *)

\* Pairs grow old in the order they were issued in.
GrowOld(p) ==
  /\ p <= issued /\ ~Expired(p)
  /\ \A q \in 1..(p - 1) : age[q] > age[p]
  /\ age' = [age EXCEPT ![p] = @ + 1]
  /\ kept' = IF age[p] = 1 /\ p \in whitelist THEN kept \ {root[p]} ELSE kept
  /\ UNCHANGED <<docs, issued, parent, root, redis, request, hands, contested,
                 ended, mishaps>>

\* The keys were set after the tokens were issued, to live as long.
KeyExpires(p) ==
  /\ \/ p \in whitelist /\ Expired(p) /\ Strike(p) /\ UNCHANGED revoked
     \/ p \in revoked /\ age[p] >= 1 /\ revoked' = revoked \ {p} /\ UNCHANGED whitelist
  /\ UNCHANGED <<docs, tokens, request, hands, history, mishaps>>

Serve(r) ==
  \/ Save(r) \/ Answer(r) \/ Rotate(r) \/ Drop(r) \/ Revoke(r) \/ Forget(r)

Next ==
  \/ \E r \in Requests : Register(r) \/ Login(r) \/ Serve(r)
  \/ \E r \in Requests, p \in Pairs : Check(r, p)
  \/ \E r \in Requests, p \in Pairs, q \in Pairs \cup {NoPair} : Guard(r, p, q)
  \/ \E p \in Pairs : GrowOld(p) \/ KeyExpires(p)

Spec == Init /\ [][Next]_vars

-----------------------------------------------------------------------------

Reaches(p) == p \in hands \/ \E r \in Requests : fresh[r] = p /\ pc[r] \in {"drop", "answer"}

(* A user who got a working refresh token has one, or is about to get it,  *)
(* through any number of rotations, overlapping or failing at any call,    *)
(* until a logout names one, an answer is lost or one has expired          *)
(* (auth_handler.go:286-289).                                              *)
AlwaysOneRefresh ==
  \A l \in kept : \E p \in Pairs : root[p] = l /\ Usable(p) /\ Reaches(p)

(* A refresh token is spent once, unless two rotations of it overlap or    *)
(* one failed half way (auth_handler.go:225-233).                          *)
SpentOnce ==
  \A o \in Pairs \ contested : Cardinality({p \in Pairs : parent[p] = o}) <= 1

(* A logout that named the last refresh token of its login, when no        *)
(* rotation of that login had overlapped or failed, leaves nothing that    *)
(* can be refreshed, now or later (auth_handler.go:331-340).               *)
LogoutEnds ==
  \A l \in ended : \A p \in whitelist : root[p] # l

=============================================================================
