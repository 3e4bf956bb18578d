------------------------------- MODULE McpServer -------------------------------
(***************************************************************************)
(* The MCP server (mcp/iot_mcp): commands and deletions are previewed      *)
(* first; the preview hands out a confirmation token, and the token is     *)
(* what a second call executes.  Calls are coroutines of one process that  *)
(* share the client of the platform's REST API and its access token: the   *)
(* actions are the stretches between two awaits.                           *)
(*                                                                         *)
(* A token is signed with the secret of the configuration or, when there   *)
(* is none, with one that the process draws when it starts; it cannot be   *)
(* forged, and what it confirms is not told apart.  The clock counts whole *)
(* seconds, as the expiry does.                                            *)
(***************************************************************************)
EXTENDS Naturals

CONSTANTS
  McCalls,                \* the calls under way
  McTokens,
  McTTL,                  \* IOT_MCP_CONFIRMATION_TTL
  McMaxClock, McMaxStarts \* bounds on the time and on the starts of the server

ASSUME McpAssumption ==
  McTTL \in Nat /\ McMaxClock \in Nat /\ McMaxStarts \in Nat \ {0}

VARIABLES
  mcConfigured,  \* IOT_MCP_CONFIRMATION_SECRET is set
  mcStarts, mcClock,
  mcToken,       \* the tokens: when they expire, and the process that signed them
  mcUsed,        \* _used_nonces
  mcAccess,      \* the access and the refresh token of the API client
  mcRefresh,
  mcCall,        \* the calls
  mcDone         \* how often the platform has done what a token confirms

mcTime == <<mcStarts, mcClock>>
mcAuth == <<mcAccess, mcRefresh>>
mcVars == <<mcConfigured, mcTime, mcToken, mcUsed, mcAuth, mcCall, mcDone>>

McAuth == {"none", "good", "expired"}
McIdle == [phase |-> "idle", op |-> "preview", for |-> {}, again |-> FALSE, good |-> FALSE]

McTypeOK ==
  /\ mcConfigured \in BOOLEAN
  /\ mcStarts \in 1 .. McMaxStarts /\ mcClock \in 0 .. McMaxClock
  /\ mcToken \in [McTokens -> [exp : 0 .. McMaxClock + McTTL, by : 0 .. McMaxStarts]]
  /\ mcUsed \subseteq McTokens
  /\ mcAccess \in McAuth /\ mcRefresh \in McAuth
  /\ mcCall \in [McCalls -> [phase : {"idle", "login", "send", "sent", "done", "refresh", "relogin"},
                             op : {"preview", "execute"}, for : SUBSET McTokens,
                             again : BOOLEAN, good : BOOLEAN]]
  /\ mcDone \in [McTokens -> 0 .. McMaxStarts]

McInit ==
  /\ mcConfigured \in BOOLEAN
  /\ mcStarts = 1 /\ mcClock = 0
  /\ mcToken = [t \in McTokens |-> [exp |-> 0, by |-> 0]]
  /\ mcUsed = {}
  /\ mcAccess = "none" /\ mcRefresh = "none"
  /\ mcCall = [k \in McCalls |-> McIdle]
  /\ mcDone = [t \in McTokens |-> 0]

-----------------------------------------------------------------------------
(* The tools.                                                              *)

McIssued(t) == mcToken[t].by # 0
McGo(k, p) == mcCall' = [mcCall EXCEPT ![k].phase = p]
McBegin(k, op, t) ==
  /\ mcCall[k] = McIdle
  /\ mcCall' = [mcCall EXCEPT ![k] = [McIdle EXCEPT !.phase = "login", !.op = op, !.for = {t}]]

\* The resource is read first.
McPreview(k) ==
  /\ \E t \in McTokens :
       /\ ~McIssued(t) /\ \A c \in McCalls : t \notin mcCall[c].for
       /\ McBegin(k, "preview", t)
  /\ UNCHANGED <<mcConfigured, mcTime, mcToken, mcUsed, mcAuth, mcDone>>

\* Mutant: nonces are forgotten in the second in which they expire.
McUnexpiredEarly(used) == {t \in used : mcToken[t].exp > mcClock}

\* The nonces that are still worth remembering.
McUnexpired(used) == {t \in used : mcToken[t].exp >= mcClock}

\* consume: the signature, the expiry and the nonce are checked, and the token
\* is used up before the platform is asked.
McExecute(k) ==
  /\ \E t \in McTokens :
       /\ McIssued(t) /\ (mcConfigured \/ mcToken[t].by = mcStarts)
       /\ mcToken[t].exp >= mcClock
       /\ t \notin McUnexpired(mcUsed)
       /\ mcUsed' = McUnexpired(mcUsed) \cup {t}
       /\ McBegin(k, "execute", t)
  /\ UNCHANGED <<mcConfigured, mcTime, mcToken, mcAuth, mcDone>>

-----------------------------------------------------------------------------
(* The API client.                                                         *)

McLogin(k) ==
  /\ mcCall[k].phase = "login"
  /\ \/ mcAccess # "none" /\ McGo(k, "send") /\ UNCHANGED mcAuth
     \/ mcAccess = "none" /\ mcAccess' = "good" /\ mcRefresh' = "good" /\ McGo(k, "send")
  /\ UNCHANGED <<mcConfigured, mcTime, mcToken, mcUsed, mcDone>>

\* The header has the access token of this moment.
McSend(k) ==
  /\ mcCall[k].phase = "send"
  /\ mcCall' = [mcCall EXCEPT ![k].phase = "sent", ![k].good = (mcAccess = "good")]
  /\ UNCHANGED <<mcConfigured, mcTime, mcToken, mcUsed, mcAuth, mcDone>>

\* The platform, which checks the access token before anything else.
McCarriedOut(k) ==
  /\ mcCall[k].phase = "sent" /\ mcCall[k].good
  /\ McGo(k, "done")
  /\ mcDone' = [t \in McTokens |-> IF mcCall[k].op = "execute" /\ t \in mcCall[k].for
                                   THEN mcDone[t] + 1 ELSE mcDone[t]]
  /\ UNCHANGED <<mcConfigured, mcTime, mcToken, mcUsed, mcAuth>>

\* A preview hands out its token.
McAnswer(k) ==
  /\ mcCall[k].phase = "done"
  /\ mcCall' = [mcCall EXCEPT ![k] = McIdle]
  /\ mcToken' = [t \in McTokens |->
       IF mcCall[k].op = "preview" /\ t \in mcCall[k].for
       THEN [exp |-> mcClock + McTTL, by |-> mcStarts] ELSE mcToken[t]]
  /\ UNCHANGED <<mcConfigured, mcTime, mcUsed, mcAuth, mcDone>>

\* 401: once the access token is renewed and the request sent again.
McRefused(k) ==
  /\ mcCall[k].phase = "sent" /\ (mcCall[k].good => mcAccess = "expired")
  /\ mcCall' = IF mcCall[k].again THEN [mcCall EXCEPT ![k] = McIdle]
               ELSE [mcCall EXCEPT ![k].phase = "refresh", ![k].again = TRUE]
  /\ UNCHANGED <<mcConfigured, mcTime, mcToken, mcUsed, mcAuth, mcDone>>

\* Until the client has logged in again the others send without a token.
McRefreshToken(k) ==
  /\ mcCall[k].phase = "refresh"
  /\ IF mcRefresh = "good"
     THEN mcAccess' = "good" /\ McGo(k, "send")
     ELSE mcAccess' = "none" /\ McGo(k, "relogin")
  /\ UNCHANGED <<mcConfigured, mcTime, mcToken, mcUsed, mcRefresh, mcDone>>

McRelogin(k) ==
  /\ mcCall[k].phase = "relogin"
  /\ mcAccess' = "good" /\ mcRefresh' = "good" /\ McGo(k, "send")
  /\ UNCHANGED <<mcConfigured, mcTime, mcToken, mcUsed, mcDone>>

\* A timeout, a refused login or an error of the platform ends the call.
McFails(k) ==
  /\ mcCall[k].phase \notin {"idle", "send"}
  /\ mcCall' = [mcCall EXCEPT ![k] = McIdle]
  /\ UNCHANGED <<mcConfigured, mcTime, mcToken, mcUsed, mcAuth, mcDone>>

-----------------------------------------------------------------------------
McTick ==
  /\ mcClock < McMaxClock /\ mcClock' = mcClock + 1
  /\ UNCHANGED <<mcConfigured, mcStarts, mcToken, mcUsed, mcAuth, mcCall, mcDone>>

McExpire ==
  /\ \/ mcAccess = "good" /\ mcAccess' = "expired" /\ UNCHANGED mcRefresh
     \/ mcAccess = "expired" /\ mcRefresh = "good" /\ mcRefresh' = "expired" /\ UNCHANGED mcAccess
  /\ UNCHANGED <<mcConfigured, mcTime, mcToken, mcUsed, mcCall, mcDone>>

McRestart ==
  /\ mcStarts < McMaxStarts /\ mcStarts' = mcStarts + 1
  /\ mcUsed' = {} /\ mcAccess' = "none" /\ mcRefresh' = "none"
  /\ mcCall' = [k \in McCalls |-> McIdle]
  /\ UNCHANGED <<mcConfigured, mcClock, mcToken, mcDone>>

McCallStep(k) ==
  \/ McPreview(k) \/ McExecute(k) \/ McLogin(k) \/ McSend(k) \/ McCarriedOut(k) \/ McAnswer(k)
  \/ McRefused(k) \/ McRefreshToken(k) \/ McRelogin(k) \/ McFails(k)

McNext == McTick \/ McExpire \/ McRestart \/ \E k \in McCalls : McCallStep(k)

McSpec == McInit /\ [][McNext]_mcVars

-----------------------------------------------------------------------------
(* What a preview has shown is done once at most: calls with the same      *)
(* token, its last second, renewed access tokens and requests that are     *)
(* sent again make no second execution.  Only a restart of a server whose  *)
(* secret is configured forgets which tokens were used (confirmation.py:   *)
(* consume; api_client.py: request).                                       *)
ConfirmedOnce ==
  \A t \in McTokens : mcDone[t] > 1 => mcConfigured /\ mcStarts > 1
=============================================================================
