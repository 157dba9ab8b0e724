---------------------------- MODULE TokenRenewal ----------------------------
(***************************************************************************)
(* Requests to the CRM server, the access token they carry, and its        *)
(* renewal.  A request refused with status 401 is parked in                *)
(* AccessTokenManager's queue, by path; the first one asks for a new token *)
(* and when it comes every parked request is sent again, once.  The user   *)
(* may log out and another one log in meanwhile.                           *)
(***************************************************************************)
EXTENDS Naturals, FiniteSets

CONSTANTS
    Requests,     \* the requests that are made
    Paths,        \* the server paths
    PathOf,       \* the path of each request
    Mapped,       \* requests made with postObject; the others with postPath
    MaxTokens,    \* bound: tokens the server issues
    MaxLaunches   \* bound: times the process dies and is launched again

Nobody  == 0
NoToken == 0
None    == "none"

ASSUME PathAssumption   == PathOf \in [Requests -> Paths]
ASSUME MappedAssumption == Mapped \subseteq Requests /\ None \notin Requests
ASSUME LimitAssumption  == MaxTokens \in Nat /\ MaxLaunches \in Nat

VARIABLES
    (* AppRepo *)
    user,        \* who is logged in: the number of the login, or Nobody
    token,       \* the stored token, or NoToken
    header,      \* the token in the shared client's Authorization header
    (* AccessTokenManager *)
    isRenewing,
    queue,       \* the request parked for each path, or None
    renewals,    \* renewal requests under way: the asking request and its user
    (* requests *)
    phase,       \* where each request is
    attempt,     \* how often a request that is under way was sent
    carried,     \* the token it carries, until the server sees it
    reply,       \* the callback that ran for it
    (* server *)
    made,        \* times it carried each request out
    owner,       \* the user each issued token was issued to, Nobody if not issued
    accepted,    \* tokens it accepts
    (* history *)
    logins,      \* logins so far
    launches,    \* relaunches so far
    granted      \* a renewal succeeded since the launch

session  == <<user, token, header>>
renewing == <<isRenewing, queue, renewals>>
requests == <<phase, attempt, carried, reply>>
server   == <<made, owner, accepted>>
counts   == <<logins, launches, granted>>
vars     == <<session, renewing, requests, server, counts>>

Tokens == 1..MaxTokens
Phases == {"unsent", "waiting", "served", "parked", "answered", "dead"}

\* Faulty: only the requests made with postObject are found.
QueuedMapped == {queue[p] : p \in Paths} \cap Mapped

\* The requests the queue holds.
Queued == {queue[p] : p \in Paths} \ {None}

-----------------------------------------------------------------------------
(* Session.                                                                *)

\* The token the server issues next.
Issue(t, u) == /\ t \in Tokens
               /\ owner[t] = Nobody
               /\ \A s \in Tokens : s < t => owner[s] # Nobody
               /\ owner' = [owner EXCEPT ![t] = u]
               /\ accepted' = accepted \cup {t}

\* performLogin succeeded: loginUser stores the token and the user's data.
Login ==
    /\ user = Nobody
    /\ \E t \in Tokens : /\ Issue(t, logins + 1)
                         /\ token' = t
    /\ logins' = logins + 1
    /\ user' = logins + 1
    /\ UNCHANGED <<header, renewing, requests, made, launches, granted>>

\* logoutUser: from the menu, the PIN screen, "Session Expired" or a deep link.
\* AccessTokenManager and the header are left as they are.
Logout ==
    /\ user # Nobody
    /\ user' = Nobody
    /\ token' = NoToken
    /\ UNCHANGED <<header, renewing, requests, server, counts>>

\* A token expires or is revoked.
Expire ==
    /\ \E t \in accepted : accepted' = accepted \ {t}
    /\ UNCHANGED <<session, renewing, requests, made, owner, counts>>

\* The process dies and is launched again: the token is in the database, what was
\* under way is forgotten.
Launch ==
    /\ header' = NoToken
    /\ isRenewing' = FALSE
    /\ queue' = [p \in Paths |-> None]
    /\ renewals' = {}
    /\ phase' = [r \in Requests |->
                    IF phase[r] \in {"waiting", "served", "parked"} THEN "dead" ELSE phase[r]]
    /\ attempt' = [r \in Requests |-> 0]
    /\ carried' = [r \in Requests |-> NoToken]
    /\ granted' = FALSE
    /\ UNCHANGED <<user, token, reply, server, logins>>

Killed ==
    /\ launches < MaxLaunches
    /\ Launch
    /\ launches' = launches + 1

-----------------------------------------------------------------------------
(* Requests.                                                               *)

\* Faulty: without a token the header is set to something that is no token.
AuthorizationNil(t) == IF t = NoToken THEN MaxTokens + 1 ELSE t

\* setAccessToken changes the header only if there is a token.
Authorization(t) == IF t = NoToken THEN header ELSE t

\* postObject, postPath.  Draft synchronisation sends its requests
\* whether or not anybody is logged in.
Send(r) ==
    /\ phase[r] = "unsent"
    /\ header' = Authorization(token)
    /\ carried' = [carried EXCEPT ![r] = Authorization(token)]
    /\ attempt' = [attempt EXCEPT ![r] = 1]
    /\ phase' = [phase EXCEPT ![r] = "waiting"]
    /\ UNCHANGED <<user, token, renewing, reply, server, counts>>

Serve(r) ==
    /\ phase[r] = "waiting"
    /\ carried[r] \in accepted
    /\ made' = [made EXCEPT ![r] = IF @ = 0 THEN 1 ELSE 2]
    /\ phase' = [phase EXCEPT ![r] = "served"]
    /\ carried' = [carried EXCEPT ![r] = NoToken]
    /\ UNCHANGED <<session, renewing, attempt, reply, owner, accepted, counts>>

Answer(r, a) ==
    /\ phase' = [phase EXCEPT ![r] = "answered"]
    /\ reply' = [reply EXCEPT ![r] = a]
    /\ attempt' = [attempt EXCEPT ![r] = 0]
    /\ carried' = [carried EXCEPT ![r] = NoToken]
    /\ UNCHANGED <<session, renewing, server, counts>>

Succeeded(r) ==
    /\ phase[r] = "served"
    /\ Answer(r, "success")

\* Any failure but a first 401: no connection, a timeout, another status, or the
\* 401 of a request sent again, which goes to its own failure block.
Failed(r) ==
    /\ phase[r] \in {"waiting", "served"}
    /\ Answer(r, "failure")

-----------------------------------------------------------------------------
(* AccessTokenManager.                                                     *)

MustAsk == ~isRenewing

\* renewAccessToken: the request waits under its path, in place of any other, and
\* asks for a token unless one is, or has ever been, under way.
Refused(r) ==
    /\ phase[r] = "waiting"
    /\ attempt[r] = 1
    /\ carried[r] \notin accepted
    /\ phase' = [phase EXCEPT ![r] = "parked"]
    /\ carried' = [carried EXCEPT ![r] = NoToken]
    /\ queue' = [queue EXCEPT ![PathOf[r]] = r]
    /\ \/ /\ MustAsk
          /\ token # NoToken
          /\ isRenewing' = TRUE
          /\ renewals' = renewals \cup {[asker |-> r, user |-> owner[token]]}
       \/ /\ ~MustAsk
          /\ UNCHANGED <<isRenewing, renewals>>
    /\ UNCHANGED <<session, attempt, reply, server, counts>>

\* Without a stored token there is no refresh token, and building the renewal's
\* parameters around nil raises.
RefusedWithoutToken(r) ==
    /\ phase[r] = "waiting"
    /\ attempt[r] = 1
    /\ carried[r] \notin accepted
    /\ MustAsk
    /\ token = NoToken
    /\ Launch
    /\ UNCHANGED launches

\* Faulty: the next refused request may ask again; the queue is still full.
RenewingAfterReset == FALSE

RenewingAfter == isRenewing

\* The new token is saved, whoever is logged in by now, and every queued request
\* is sent again.  The queue is not emptied and isRenewing is not reset.
Granted(n) ==
    /\ n \in renewals
    /\ \E t \in Tokens :
         /\ Issue(t, n.user)
         /\ token' = t
         /\ header' = IF Queued = {} THEN header ELSE t
         /\ carried' = [r \in Requests |-> IF r \in Queued THEN t ELSE carried[r]]
    /\ renewals' = renewals \ {n}
    /\ isRenewing' = RenewingAfter
    /\ phase' = [r \in Requests |-> IF r \in Queued THEN "waiting" ELSE phase[r]]
    /\ attempt' = [r \in Requests |-> IF r \in Queued THEN 2 ELSE attempt[r]]
    /\ granted' = TRUE
    /\ UNCHANGED <<user, queue, reply, made, logins, launches>>

\* A success without a token in it changes nothing.
GrantedNothing(n) ==
    /\ n \in renewals
    /\ renewals' = renewals \ {n}
    /\ UNCHANGED <<session, isRenewing, queue, requests, server, counts>>

\* The renewal failed: the queue is emptied, and of the parked requests only the
\* asking one is told, if its failure block is the mapped kind.
RenewalFailed(n) ==
    /\ n \in renewals
    /\ renewals' = renewals \ {n}
    /\ isRenewing' = FALSE
    /\ queue' = [p \in Paths |-> None]
    /\ phase' = [phase EXCEPT ![n.asker] = IF n.asker \in Mapped THEN "answered" ELSE @]
    /\ reply' = [reply EXCEPT ![n.asker] = IF n.asker \in Mapped THEN "failure" ELSE @]
    /\ UNCHANGED <<session, attempt, carried, server, counts>>

-----------------------------------------------------------------------------

Init ==
    /\ user = Nobody
    /\ token = NoToken
    /\ header = NoToken
    /\ isRenewing = FALSE
    /\ queue = [p \in Paths |-> None]
    /\ renewals = {}
    /\ phase = [r \in Requests |-> "unsent"]
    /\ attempt = [r \in Requests |-> 0]
    /\ carried = [r \in Requests |-> NoToken]
    /\ reply = [r \in Requests |-> "none"]
    /\ made = [r \in Requests |-> 0]
    /\ owner = [t \in Tokens |-> Nobody]
    /\ accepted = {}
    /\ logins = 0
    /\ launches = 0
    /\ granted = FALSE

Renewal(n) == Granted(n) \/ GrantedNothing(n) \/ RenewalFailed(n)

RequestStep(r) == \/ Send(r) \/ Serve(r) \/ Succeeded(r) \/ Failed(r)
                  \/ Refused(r) \/ RefusedWithoutToken(r)

Next ==
    \/ Login
    \/ Logout
    \/ Expire
    \/ Killed
    \/ \E r \in Requests : RequestStep(r)
    \/ \E n \in renewals : Renewal(n)

Spec == Init /\ [][Next]_vars

\* The network layer answers or times out every renewal request.
FairSpec == Spec /\ WF_vars(\E n \in renewals : Renewal(n))

-----------------------------------------------------------------------------
(* Properties.                                                             *)

\* Type invariant.
TypeOK ==
    /\ user \in Nat
    /\ token \in Tokens \cup {NoToken}
    /\ header \in Tokens \cup {NoToken}
    /\ isRenewing \in BOOLEAN
    /\ queue \in [Paths -> Requests \cup {None}]
    /\ renewals \subseteq [asker : Requests, user : Nat]
    /\ phase \in [Requests -> Phases]
    /\ attempt \in [Requests -> 0..2]
    /\ carried \in [Requests -> Tokens \cup {NoToken}]
    /\ reply \in [Requests -> {"none", "success", "failure"}]
    /\ made \in [Requests -> 0..2]
    /\ owner \in [Tokens -> Nat]
    /\ accepted \subseteq Tokens
    /\ logins \in Nat
    /\ launches \in 0..MaxLaunches
    /\ granted \in BOOLEAN

\* The web layer behaves like RequestChannel, which is what draft synchronisation
\* relies on: parking, replaying, a second user and relaunches neither carry a
\* request out twice nor run its callbacks twice, and no success is made up.
Channel == INSTANCE RequestChannel WITH sent <- {r \in Requests : phase[r] # "unsent"}
ChannelSpec == Channel!Spec

\* A request parked while a token is being asked for is sent again or told of the
\* failure; the exceptions are a later request with the same path that takes its
\* place, a failed renewal, which empties the queue, and one that brings no token.
ParkedIsResumed ==
    \A r \in Requests :
        phase[r] = "parked" /\ renewals # {} ~>
            \/ phase[r] # "parked"
            \/ queue[PathOf[r]] # r
            \/ renewals = {} /\ ~granted

\* AppRepo.m:118 says of saveTokenData, which stores every token: "Save new user's
\* data".  The stored token is the logged-in user's.
TokenIsTheUsers ==
    user # Nobody /\ token # NoToken => owner[token] = user
=============================================================================
