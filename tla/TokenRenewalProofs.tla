------------------------- MODULE TokenRenewalProofs -------------------------
(***************************************************************************)
(* Theorems about TokenRenewal, for every set of requests and paths and    *)
(* every number of tokens and launches.                                    *)
(***************************************************************************)
EXTENDS TokenRenewal, TLAPS

USE LimitAssumption, MappedAssumption, PathAssumption
    DEF session, renewing, requests, server, counts

-----------------------------------------------------------------------------
(* Types, in three groups.                                                 *)

Flags == isRenewing \in BOOLEAN /\ granted \in BOOLEAN

SessionType ==
    /\ user \in Nat
    /\ logins \in Nat
    /\ launches \in 0..MaxLaunches
    /\ token \in Tokens \cup {NoToken}
    /\ header \in Tokens \cup {NoToken}
    /\ owner \in [Tokens -> Nat]
    /\ accepted \subseteq Tokens

RequestType ==
    /\ queue \in [Paths -> Requests \cup {None}]
    /\ renewals \subseteq [asker : Requests, user : Nat]
    /\ phase \in [Requests -> Phases]
    /\ attempt \in [Requests -> 0..2]
    /\ carried \in [Requests -> Tokens \cup {NoToken}]
    /\ reply \in [Requests -> {"none", "success", "failure"}]
    /\ made \in [Requests -> 0..2]

LEMMA TypeSplit == TypeOK <=> Flags /\ SessionType /\ RequestType
  BY DEF TypeOK, Flags, SessionType, RequestType

LEMMA TypeInit == Init => TypeOK
  <1>. SUFFICES ASSUME Init PROVE Flags /\ SessionType /\ RequestType
    BY TypeSplit
  <1>1. Flags
    BY DEF Init, Flags
  <1>2. SessionType
    BY DEF Init, SessionType, Nobody, NoToken
  <1>3. RequestType
    BY DEF Init, RequestType, Phases, NoToken
  <1>. QED
    BY <1>1, <1>2, <1>3

\* Issuing a token keeps the server's types.
LEMMA IssueType ==
  ASSUME SessionType, NEW t, NEW u \in Nat, Issue(t, u)
  PROVE  t \in Tokens /\ owner' \in [Tokens -> Nat] /\ accepted' \subseteq Tokens
  BY DEF SessionType, Issue

LEMMA AuthorizationType ==
  ASSUME SessionType PROVE Authorization(token) \in Tokens \cup {NoToken}
  BY DEF SessionType, Authorization

LEMMA LaunchType ==
  ASSUME RequestType, Launch
  PROVE  /\ RequestType'
         /\ header' = NoToken
         /\ UNCHANGED <<user, token, owner, accepted, logins>>
  BY DEF RequestType, Launch, Phases, NoToken

LEMMA TypeStep == TypeOK /\ [Next]_vars => TypeOK'
  <1>. SUFFICES ASSUME Flags, SessionType, RequestType, [Next]_vars
                PROVE  Flags' /\ SessionType' /\ RequestType'
    BY TypeSplit DEF TypeOK, Flags, SessionType, RequestType
  <1>1. CASE Login
    <2>1. PICK t \in Tokens : Issue(t, logins + 1) /\ token' = t
      BY <1>1 DEF Login
    <2>2. SessionType'
      BY <1>1, <2>1, IssueType DEF Login, SessionType
    <2>. QED
      BY <1>1, <2>2 DEF Login, Flags, RequestType, Issue
  <1>2. CASE Logout \/ Expire \/ UNCHANGED vars
    <2>1. Flags'
      BY <1>2 DEF Logout, Expire, vars, Flags
    <2>. QED
      BY <1>2, <2>1 DEF Logout, Expire, vars, SessionType, RequestType, Nobody, NoToken
  <1>3. CASE Killed \/ \E r \in Requests : RefusedWithoutToken(r)
    <2>1. Launch /\ launches' \in 0..MaxLaunches
      BY <1>3 DEF Killed, RefusedWithoutToken, SessionType
    <2>2. Flags'
      BY <2>1 DEF Launch, Flags
    <2>. QED
      BY <2>1, <2>2, LaunchType DEF SessionType
  <1>4. ASSUME NEW r \in Requests,
               Send(r) \/ Serve(r) \/ Succeeded(r) \/ Failed(r) \/ Refused(r)
        PROVE  Flags' /\ SessionType' /\ RequestType'
    <2>1. CASE Send(r)
      BY <1>4, <2>1, AuthorizationType DEF Send, Flags, SessionType, RequestType, Phases
    <2>2. CASE Serve(r)
      BY <2>2 DEF Serve, Flags, SessionType, RequestType, Phases, NoToken
    <2>3. CASE Succeeded(r) \/ Failed(r)
      <3>1. PICK a \in {"success", "failure"} : Answer(r, a)
        BY <2>3 DEF Succeeded, Failed
      <3>. QED
        BY <3>1 DEF Answer, Flags, SessionType, RequestType, Phases, NoToken
    <2>4. CASE Refused(r)
      <3>1. Flags'
        BY <2>4 DEF Refused, Flags
      <3>2. renewals' \subseteq [asker : Requests, user : Nat]
        BY <2>4 DEF Refused, SessionType, RequestType, NoToken
      <3>. QED
        BY <2>4, <3>1, <3>2 DEF Refused, SessionType, RequestType, Phases, NoToken
    <2>. QED
      BY <1>4, <2>1, <2>2, <2>3, <2>4
  <1>5. ASSUME NEW n \in renewals, Renewal(n)
        PROVE  Flags' /\ SessionType' /\ RequestType'
    <2>. n.asker \in Requests /\ n.user \in Nat
      BY DEF RequestType
    <2>1. CASE Granted(n)
      <3>1. PICK t \in Tokens : /\ Issue(t, n.user)
                                /\ token' = t
                                /\ header' = IF Queued = {} THEN header ELSE t
                                /\ carried' = [r \in Requests |-> IF r \in Queued THEN t ELSE carried[r]]
        BY <2>1 DEF Granted
      <3>2. Flags'
        BY <2>1 DEF Granted, RenewingAfter, Flags
      <3>3. SessionType'
        BY <2>1, <3>1, IssueType DEF Granted, SessionType
      <3>4. RequestType'
        BY <2>1, <3>1 DEF Granted, RequestType, Phases
      <3>. QED
        BY <3>2, <3>3, <3>4
    <2>2. CASE GrantedNothing(n)
      BY <2>2 DEF GrantedNothing, Flags, SessionType, RequestType
    <2>3. CASE RenewalFailed(n)
      <3>1. Flags'
        BY <2>3 DEF RenewalFailed, Flags
      <3>. QED
        BY <2>3, <3>1 DEF RenewalFailed, SessionType, RequestType, Phases
    <2>. QED
      BY <1>5, <2>1, <2>2, <2>3 DEF Renewal
  <1>. QED
    BY <1>1, <1>2, <1>3, <1>4, <1>5 DEF Next, RequestStep

\* AccessTokenManager's queue, the requests, the stored token and the header hold only
\* what their declarations allow, whatever order requests and renewals end in.
THEOREM TypeCorrect == Spec => []TypeOK
  BY TypeInit, TypeStep, PTL DEF Spec

-----------------------------------------------------------------------------
(* The channel.  What decides whether a request may be sent again is the   *)
(* queue together with the renewal: until a renewal succeeds the queue     *)
(* holds only parked requests, which the server has not carried out; after *)
(* it isRenewing stays set, so that no renewal replays the queue again.    *)

OneRenewal == \A n, m \in renewals : n = m

RenewalIsKnown == renewals # {} => isRenewing /\ ~granted

GrantIsKnown == granted => isRenewing

AskerWaits == \A n \in renewals : phase[n.asker] = "parked"

QueueWaits == ~granted => \A r \in Queued : phase[r] = "parked"

Unmade(r) == made[r] = 0 /\ reply[r] = "none"

Fresh(r) ==
    /\ phase[r] \in {"unsent", "waiting", "parked"} => Unmade(r)
    /\ phase[r] = "served" => made[r] = 1 /\ reply[r] = "none"

AllFresh == \A r \in Requests : Fresh(r)

Switches == OneRenewal /\ RenewalIsKnown /\ GrantIsKnown

ChannelInv == TypeOK /\ Switches /\ AskerWaits /\ QueueWaits /\ AllFresh

\* What a step does that changes nothing of a request and nothing of the renewing.
LEMMA ApartKeeps ==
  ASSUME ChannelInv, UNCHANGED <<renewing, phase, made, reply, granted>>
  PROVE  Switches' /\ AskerWaits' /\ QueueWaits' /\ AllFresh'
  <1>1. Switches'
    BY DEF ChannelInv, Switches, OneRenewal, RenewalIsKnown, GrantIsKnown
  <1>2. AskerWaits' /\ QueueWaits'
    BY DEF ChannelInv, AskerWaits, QueueWaits, Queued
  <1>3. AllFresh'
    BY DEF ChannelInv, AllFresh, Fresh, Unmade
  <1>. QED
    BY <1>1, <1>2, <1>3

LEMMA LaunchKeeps ==
  ASSUME ChannelInv, Launch
  PROVE  Switches' /\ AskerWaits' /\ QueueWaits' /\ AllFresh'
  <1>1. Switches'
    BY DEF Launch, Switches, OneRenewal, RenewalIsKnown, GrantIsKnown
  <1>2. AskerWaits' /\ QueueWaits'
    BY DEF Launch, AskerWaits, QueueWaits, Queued
  <1>3. AllFresh'
    BY DEF Launch, ChannelInv, AllFresh, Fresh, Unmade, TypeOK
  <1>. QED
    BY <1>1, <1>2, <1>3

\* A request that is not parked is not in the queue as long as no renewal succeeded,
\* so that its own steps leave the queue alone.
LEMMA OwnStepKeeps ==
  ASSUME ChannelInv, NEW r \in Requests, phase[r] # "parked",
         UNCHANGED <<renewing, granted>>,
         NEW s \in Phases, phase' = [phase EXCEPT ![r] = s]
  PROVE  Switches' /\ AskerWaits' /\ QueueWaits'
  <1>1. Switches'
    BY DEF ChannelInv, Switches, OneRenewal, RenewalIsKnown, GrantIsKnown
  <1>2. AskerWaits'
    BY DEF ChannelInv, AskerWaits, TypeOK
  <1>3. QueueWaits'
    BY DEF ChannelInv, QueueWaits, Queued, TypeOK
  <1>. QED
    BY <1>1, <1>2, <1>3

LEMMA RefusedKeeps ==
  ASSUME ChannelInv, NEW r \in Requests, Refused(r)
  PROVE  Switches' /\ AskerWaits' /\ QueueWaits' /\ AllFresh'
  <1>1. Switches'
    BY DEF ChannelInv, Refused, MustAsk, Switches, OneRenewal, RenewalIsKnown, GrantIsKnown
  <1>2. AskerWaits'
    BY DEF ChannelInv, Refused, AskerWaits, TypeOK
  <1>3. QueueWaits'
    BY DEF ChannelInv, Refused, QueueWaits, Queued, TypeOK
  <1>4. AllFresh'
    BY DEF ChannelInv, Refused, AllFresh, Fresh, Unmade, TypeOK
  <1>. QED
    BY <1>1, <1>2, <1>3, <1>4

LEMMA RenewalKeeps ==
  ASSUME ChannelInv, NEW n \in renewals, Renewal(n)
  PROVE  Switches' /\ AskerWaits' /\ QueueWaits' /\ AllFresh'
  <1>1. isRenewing /\ ~granted /\ renewals \ {n} = {}
    BY DEF ChannelInv, Switches, OneRenewal, RenewalIsKnown
  <1>2. \A r \in Queued : phase[r] = "parked"
    BY <1>1 DEF ChannelInv, QueueWaits
  <1>3. renewals' = {}
    BY <1>1 DEF Renewal, Granted, GrantedNothing, RenewalFailed
  <1>4. AskerWaits'
    BY <1>3 DEF AskerWaits
  <1>5. CASE Granted(n)
    <2>1. isRenewing' = isRenewing /\ granted' = TRUE
      BY <1>5 DEF Granted, RenewingAfter
    <2>2. Switches'
      BY <1>1, <1>3, <2>1 DEF Switches, OneRenewal, RenewalIsKnown, GrantIsKnown
    <2>3. QueueWaits'
      BY <2>1 DEF QueueWaits
    <2>4. AllFresh'
      BY <1>2, <1>5 DEF Granted, ChannelInv, AllFresh, Fresh, Unmade, TypeOK
    <2>. QED
      BY <1>4, <2>2, <2>3, <2>4
  <1>6. CASE GrantedNothing(n)
    <2>1. UNCHANGED <<isRenewing, granted>>
      BY <1>6 DEF GrantedNothing
    <2>2. Switches'
      BY <1>1, <1>3, <2>1 DEF Switches, OneRenewal, RenewalIsKnown, GrantIsKnown
    <2>3. QueueWaits' /\ AllFresh'
      BY <1>6, <2>1 DEF GrantedNothing, ChannelInv, QueueWaits, Queued, AllFresh, Fresh, Unmade
    <2>. QED
      BY <1>4, <2>2, <2>3
  <1>7. CASE RenewalFailed(n)
    <2>1. granted' = granted
      BY <1>7 DEF RenewalFailed
    <2>2. Switches'
      BY <1>1, <1>3, <2>1 DEF Switches, OneRenewal, RenewalIsKnown, GrantIsKnown
    <2>3. QueueWaits'
      BY <1>7 DEF RenewalFailed, QueueWaits, Queued
    <2>4. AllFresh'
      BY <1>7 DEF RenewalFailed, ChannelInv, AllFresh, Fresh, Unmade, TypeOK
    <2>. QED
      BY <1>4, <2>2, <2>3, <2>4
  <1>. QED
    BY <1>5, <1>6, <1>7 DEF Renewal

LEMMA ChannelInvInit == Init => ChannelInv
  <1>. SUFFICES ASSUME Init PROVE ChannelInv
    OBVIOUS
  <1>1. Switches
    BY DEF Init, Switches, OneRenewal, RenewalIsKnown, GrantIsKnown
  <1>2. AskerWaits /\ QueueWaits
    BY DEF Init, AskerWaits, QueueWaits, Queued
  <1>3. AllFresh
    BY DEF Init, AllFresh, Fresh, Unmade
  <1>. QED
    BY <1>1, <1>2, <1>3, TypeInit DEF ChannelInv

LEMMA ChannelInvStep == ChannelInv /\ [Next]_vars => ChannelInv'
  <1>. SUFFICES ASSUME ChannelInv, [Next]_vars
                PROVE  Switches' /\ AskerWaits' /\ QueueWaits' /\ AllFresh'
    BY TypeStep DEF ChannelInv
  <1>1. CASE Login \/ Logout \/ Expire \/ UNCHANGED vars
    BY <1>1, ApartKeeps DEF Login, Logout, Expire, vars
  <1>2. CASE Killed \/ \E r \in Requests : RefusedWithoutToken(r)
    BY <1>2, LaunchKeeps DEF Killed, RefusedWithoutToken
  <1>3. ASSUME NEW r \in Requests, RequestStep(r), ~RefusedWithoutToken(r)
        PROVE  Switches' /\ AskerWaits' /\ QueueWaits' /\ AllFresh'
    <2>1. CASE Send(r)
      <3>1. AllFresh'
        BY <2>1 DEF Send, ChannelInv, AllFresh, Fresh, Unmade, TypeOK
      <3>. QED
        BY <2>1, <3>1, OwnStepKeeps DEF Send, Phases
    <2>2. CASE Serve(r)
      <3>1. AllFresh'
        BY <2>2 DEF Serve, ChannelInv, AllFresh, Fresh, Unmade, TypeOK
      <3>. QED
        BY <2>2, <3>1, OwnStepKeeps DEF Serve, Phases
    <2>3. CASE Succeeded(r) \/ Failed(r)
      <3>1. PICK a \in {"success", "failure"} : Answer(r, a)
        BY <2>3 DEF Succeeded, Failed
      <3>2. AllFresh'
        BY <3>1 DEF Answer, ChannelInv, AllFresh, Fresh, Unmade, TypeOK
      <3>. QED
        BY <2>3, <3>1, <3>2, OwnStepKeeps DEF Succeeded, Failed, Answer, Phases
    <2>. QED
      BY <1>3, <2>1, <2>2, <2>3, RefusedKeeps DEF RequestStep
  <1>. QED
    BY <1>1, <1>2, <1>3, RenewalKeeps DEF Next

-----------------------------------------------------------------------------
(* The refinement.                                                         *)

SentByApp == {r \in Requests : phase[r] # "unsent"}

ChannelVars == <<SentByApp, made, reply>>

LEMMA ChannelInit == Init => Channel!Init
  BY DEF Init, Channel!Init

\* Steps the callers of the web layer see nothing of.
LEMMA Unseen ==
  ASSUME TypeOK, UNCHANGED <<made, reply>>,
         phase' \in [Requests -> Phases],
         \A r \in Requests : phase'[r] = "unsent" <=> phase[r] = "unsent"
  PROVE  UNCHANGED ChannelVars
  BY DEF ChannelVars, SentByApp

LEMMA RequestStepMaps ==
  ASSUME ChannelInv, NEW r \in Requests, RequestStep(r)
  PROVE  Channel!Next \/ UNCHANGED ChannelVars
  <1>. Fresh(r)
    BY DEF ChannelInv, AllFresh
  <1>1. CASE Send(r)
    <2>1. Channel!Send(r)
      BY <1>1 DEF Send, Channel!Send, ChannelInv, TypeOK
    <2>. QED
      BY <2>1 DEF Channel!Next
  <1>2. CASE Serve(r)
    <2>1. Channel!CarryOut(r)
      BY <1>2 DEF Serve, Channel!CarryOut, ChannelInv, TypeOK, Fresh, Unmade
    <2>. QED
      BY <2>1 DEF Channel!Next
  <1>3. CASE Succeeded(r)
    <2>1. Channel!Succeed(r)
      BY <1>3 DEF Succeeded, Answer, Channel!Succeed, ChannelInv, TypeOK, Fresh
    <2>. QED
      BY <2>1 DEF Channel!Next
  <1>4. CASE Failed(r)
    <2>1. Channel!Fail(r)
      BY <1>4 DEF Failed, Answer, Channel!Fail, ChannelInv, TypeOK, Fresh, Unmade
    <2>. QED
      BY <2>1 DEF Channel!Next
  <1>5. CASE Refused(r)
    BY <1>5, Unseen DEF Refused, ChannelInv, TypeOK, Phases
  <1>6. CASE RefusedWithoutToken(r)
    BY <1>6, Unseen DEF RefusedWithoutToken, Launch, ChannelInv, TypeOK, Phases
  <1>. QED
    BY <1>1, <1>2, <1>3, <1>4, <1>5, <1>6 DEF RequestStep

LEMMA RenewalMaps ==
  ASSUME ChannelInv, NEW n \in renewals, Renewal(n)
  PROVE  Channel!Next \/ UNCHANGED ChannelVars
  <1>1. ~granted
    BY DEF ChannelInv, Switches, RenewalIsKnown
  <1>2. \A r \in Queued : phase[r] = "parked"
    BY <1>1 DEF ChannelInv, QueueWaits
  <1>3. n.asker \in Requests /\ phase[n.asker] = "parked" /\ reply[n.asker] = "none"
    BY DEF ChannelInv, TypeOK, AskerWaits, AllFresh, Fresh, Unmade
  <1>4. CASE Granted(n)
    BY <1>2, <1>4, Unseen DEF Granted, ChannelInv, TypeOK, Phases
  <1>5. CASE GrantedNothing(n)
    BY <1>5, Unseen DEF GrantedNothing, ChannelInv, TypeOK
  <1>6. CASE RenewalFailed(n) /\ n.asker \in Mapped
    <2>1. Channel!Fail(n.asker)
      BY <1>3, <1>6 DEF RenewalFailed, Channel!Fail, ChannelInv, TypeOK
    <2>. QED
      BY <1>3, <2>1 DEF Channel!Next
  <1>7. CASE RenewalFailed(n) /\ n.asker \notin Mapped
    BY <1>3, <1>7, Unseen DEF RenewalFailed, ChannelInv, TypeOK
  <1>. QED
    BY <1>4, <1>5, <1>6, <1>7 DEF Renewal

LEMMA StepMaps == ChannelInv /\ [Next]_vars => [Channel!Next]_ChannelVars
  <1>. SUFFICES ASSUME ChannelInv, [Next]_vars
                PROVE  Channel!Next \/ UNCHANGED ChannelVars
    OBVIOUS
  <1>1. CASE Login \/ Logout \/ Expire \/ UNCHANGED vars
    BY <1>1 DEF Login, Logout, Expire, vars, ChannelVars, SentByApp
  <1>2. CASE Killed
    BY <1>2, Unseen DEF Killed, Launch, ChannelInv, TypeOK, Phases
  <1>. QED
    BY <1>1, <1>2, RequestStepMaps, RenewalMaps DEF Next

\* The web layer behaves like RequestChannel: the server carries every request out at
\* most once and its callbacks run at most once, over parking (renewAccessToken),
\* replays, failed renewals, logouts, logins of other users and relaunches.
THEOREM ChannelCorrect == Spec => ChannelSpec
  <1>1. Spec => []ChannelInv
    BY ChannelInvInit, ChannelInvStep, PTL DEF Spec
  <1>2. QED
    BY <1>1, ChannelInit, StepMaps, PTL
       DEF Spec, ChannelSpec, Channel!Spec, ChannelVars, SentByApp
=============================================================================
