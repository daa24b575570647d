----------------------------- MODULE TokenRefresh -----------------------------
(***************************************************************************)
(* One cloud session whose callers share an access token and a refresh     *)
(* token: a client is made from the cached access token or from a refresh, *)
(* an attempt that is refused with 401 clears the cache, refreshes and is  *)
(* repeated, and Box, whose refresh tokens can be spent once, rotates and  *)
(* persists its own under a mutex. The provider is part of the model: it   *)
(* accepts one refresh token (the last one of a provider that rotates) and *)
(* a set of access tokens, and its answers may be lost.                    *)
(*                                                                         *)
(* Tokens are numbers in the order they were issued: 0 is no access token, *)
(* and the refresh token the session was opened with.                      *)
(***************************************************************************)
EXTENDS Integers

CONSTANTS
  Callers,              \* goroutines with an adapter of the session
  NoCaller,             \* nobody holds refreshMu
  Providers,            \* the sessions to consider
  MaxGenericRetries,    \* attempts after the one a refresh pays for
  MaxIssued             \* bound: tokens issued

\* rotates: refresh tokens are used once, under refreshMu, and the new one is
\* persisted. probes: every client is preceded by a probe of the account until
\* it is known for which team member the session speaks.
Plain == [rotates |-> FALSE, probes |-> FALSE]
GoogleDrive == Plain
OneDrive    == Plain
SharePoint  == Plain
Dropbox     == [Plain EXCEPT !.probes = TRUE]
Box         == [Plain EXCEPT !.rotates = TRUE]

ASSUME TokenAssumption ==
  /\ NoCaller \notin Callers
  /\ Providers \subseteq [rotates: BOOLEAN, probes: BOOLEAN]
  /\ MaxGenericRetries \in Nat /\ MaxIssued \in Nat

VARIABLES
  provider, \* which session this is
  team,     \* the token is linked to a team: requests must name a member
  issued,   \* the last token issued
  grant,    \* the refresh token the provider accepts
  live,     \* the access tokens the provider accepts
  stored,   \* s.stored.RefreshToken
  saved,    \* the refresh token in the migration database
  wired,    \* persistCreds is set
  cache,    \* the access token in the TokenStore
  member,   \* selectUser is known
  closed,
  refreshMu,
  lost,     \* the accepted refresh token never reached this process, or died with it
  unsaved,  \* the last rotation was not persisted
  job       \* the call of each caller

tokens == <<grant, live, issued>>
held   == <<stored, saved, wired, lost, unsaved>>
vars   == <<provider, team, tokens, held, cache, member, closed, refreshMu, job>>

\* token: of the client in hand. for: what the client is for. why: who asked
\* for the refresh, making a client or a 401. spend: the refresh token
\* presented. got: the access token it brought. retries: generic retries left.
Idle == [at |-> "idle", token |-> 0, for |-> "op", why |-> "client", spend |-> 0,
         got |-> 0, refreshed |-> FALSE, named |-> FALSE,
         retries |-> MaxGenericRetries]

Init ==
  /\ provider \in Providers
  /\ team \in (IF provider.probes THEN BOOLEAN ELSE {FALSE})
  /\ issued = 0 /\ grant = 0 /\ live = {}
  /\ stored = 0 /\ saved = 0 /\ cache = 0
  /\ wired \in (IF provider.rotates THEN BOOLEAN ELSE {FALSE})
  /\ member = FALSE /\ closed = FALSE /\ lost = FALSE /\ unsaved = FALSE
  /\ refreshMu = NoCaller
  /\ job = [c \in Callers |-> Idle]
-----------------------------------------------------------------------------
At(c, a)  == job[c].at = a
Set(c, j) == job' = [job EXCEPT ![c] = j]
Goto(c, a) == Set(c, [job[c] EXCEPT !.at = a])
Fail(c)   == Set(c, [Idle EXCEPT !.at = "failed"])

Unlock(c) == refreshMu' = IF refreshMu = c THEN NoCaller ELSE refreshMu

\* Every attempt makes its own client; Dropbox asks for whom first.
NeedsProbe == provider.probes /\ ~member /\ ~closed
Attempted(j) == [Idle EXCEPT !.at = "client", !.for = IF NeedsProbe THEN "probe" ELSE "op",
                             !.refreshed = j.refreshed, !.retries = j.retries]

Call(c) ==
  /\ At(c, "idle")
  /\ Set(c, Attempted(job[c]))
  /\ UNCHANGED <<provider, team, tokens, held, cache, member, closed, refreshMu>>

\* httpClient: the cached token, or a refresh. selectUser is read with it.
TakeClient(c) ==
  /\ At(c, "client")
  /\ Set(c, IF cache # 0 THEN [job[c] EXCEPT !.at = job[c].for, !.token = cache, !.named = member]
            ELSE [job[c] EXCEPT !.at = "refresh"])
  /\ UNCHANGED <<provider, team, tokens, held, cache, member, closed, refreshMu>>

\* Mutant: the refresh token is read before the mutex is taken.
BeginRefreshUnlocked(c) ==
  /\ At(c, "refresh")
  /\ Set(c, [job[c] EXCEPT !.at = "asking", !.spend = stored])
  /\ UNCHANGED <<provider, team, tokens, held, cache, member, closed, refreshMu>>

\* Box takes refreshMu, and only then reads the refresh token it presents.
BeginRefresh(c) ==
  /\ At(c, "refresh")
  /\ IF provider.rotates THEN refreshMu = NoCaller /\ refreshMu' = c
                         ELSE UNCHANGED refreshMu
  /\ Set(c, [job[c] EXCEPT !.at = "asking", !.spend = stored])
  /\ UNCHANGED <<provider, team, tokens, held, cache, member, closed>>

\* The provider issues an access token and, if it rotates, a refresh token.
Issue ==
  /\ issued < MaxIssued
  /\ issued' = issued + 1
  /\ live' = live \cup {issued + 1}
  /\ grant' = IF provider.rotates THEN issued + 1 ELSE grant

Granted(c) ==
  /\ At(c, "asking") /\ job[c].spend = grant
  /\ Issue
  /\ Set(c, [job[c] EXCEPT !.at = IF provider.rotates THEN "rotate" ELSE "store",
                           !.got = issued + 1])
  /\ UNCHANGED <<provider, team, held, cache, member, closed, refreshMu>>

\* ... and the answer does not arrive.
GrantLost(c) ==
  /\ At(c, "asking") /\ job[c].spend = grant
  /\ Issue
  /\ lost' = (lost \/ provider.rotates)
  /\ Fail(c) /\ Unlock(c)
  /\ UNCHANGED <<provider, team, stored, saved, wired, unsaved, cache, member, closed>>

\* A spent token is refused, and any request may fail before it is served.
RefreshFails(c) ==
  /\ At(c, "asking")
  /\ Fail(c) /\ Unlock(c)
  /\ UNCHANGED <<provider, team, tokens, held, cache, member, closed>>

\* Mutant: the new refresh token is kept only by whoever persists it.
RotateForgets(c) ==
  /\ At(c, "rotate")
  /\ Goto(c, IF wired THEN "persist" ELSE "store")
  /\ IF wired THEN UNCHANGED refreshMu ELSE Unlock(c)
  /\ UNCHANGED <<provider, team, tokens, held, cache, member, closed>>

\* The session keeps the new refresh token; without a persister that is all.
Rotate(c) ==
  /\ At(c, "rotate")
  /\ stored' = job[c].got
  /\ unsaved' = TRUE
  /\ Goto(c, IF wired THEN "persist" ELSE "store")
  /\ IF wired THEN UNCHANGED refreshMu ELSE Unlock(c)
  /\ UNCHANGED <<provider, team, tokens, saved, wired, lost, cache, member, closed>>

Persist(c) ==
  /\ At(c, "persist")
  /\ saved' = job[c].got /\ unsaved' = FALSE
  /\ Goto(c, "store") /\ Unlock(c)
  /\ UNCHANGED <<provider, team, tokens, stored, wired, lost, cache, member, closed>>

\* Mutant: the error return forgets the mutex.
PersistFailsLocked(c) ==
  /\ At(c, "persist")
  /\ Fail(c) /\ UNCHANGED refreshMu
  /\ UNCHANGED <<provider, team, tokens, held, cache, member, closed>>

\* The refresh fails, although the session has the new token.
PersistFails(c) ==
  /\ At(c, "persist")
  /\ Fail(c) /\ Unlock(c)
  /\ UNCHANGED <<provider, team, tokens, held, cache, member, closed>>

\* RefreshAccessToken fills the cache, after refreshMu; a refresh after a 401
\* goes round the retry loop, one for a client looks at the cache again.
StoreToken(c) ==
  /\ At(c, "store")
  /\ cache' = job[c].got
  /\ Set(c, IF job[c].why = "client" THEN [job[c] EXCEPT !.at = "recheck", !.spend = 0, !.got = 0]
            ELSE Attempted([job[c] EXCEPT !.refreshed = TRUE]))
  /\ UNCHANGED <<provider, team, tokens, held, member, closed, refreshMu>>

\* "no access token after refresh": somebody cleared it in between.
Recheck(c) ==
  /\ At(c, "recheck")
  /\ IF cache # 0
     THEN Set(c, [job[c] EXCEPT !.at = job[c].for, !.token = cache, !.named = member])
     ELSE Fail(c)
  /\ UNCHANGED <<provider, team, tokens, held, cache, member, closed, refreshMu>>

\* Mutant: a team is not asked for its administrator.
ProbeIgnoresTeam(c) ==
  /\ At(c, "probe") /\ job[c].token \in live
  /\ Set(c, [job[c] EXCEPT !.at = "client", !.for = "op", !.token = 0, !.named = FALSE])
  /\ UNCHANGED <<provider, team, tokens, held, cache, member, closed, refreshMu>>

\* getCurrentAccount answers, or says the token belongs to a team, whose
\* administrator is then the member to speak for.
Probe(c) ==
  /\ At(c, "probe") /\ job[c].token \in live
  /\ member' = (member \/ team)
  /\ Set(c, [job[c] EXCEPT !.at = "client", !.for = "op", !.token = 0, !.named = FALSE])
  /\ UNCHANGED <<provider, team, tokens, held, cache, closed, refreshMu>>

\* The request; without a member a team's token is turned away for good.
Served(c) ==
  /\ At(c, "op") /\ job[c].token \in live
  /\ IF team /\ ~job[c].named THEN Fail(c)
     ELSE Set(c, [Idle EXCEPT !.at = "done"])
  /\ UNCHANGED <<provider, team, tokens, held, cache, member, closed, refreshMu>>

\* 401: one refresh, after the cache is cleared; then a few plain retries.
Unauthorized(c) ==
  /\ job[c].at \in {"probe", "op"} /\ job[c].token \notin live
  /\ IF ~job[c].refreshed THEN Goto(c, "clear")
     ELSE IF job[c].retries > 0
          THEN Set(c, Attempted([job[c] EXCEPT !.retries = @ - 1]))
          ELSE Fail(c)
  /\ UNCHANGED <<provider, team, tokens, held, cache, member, closed, refreshMu>>

Clear(c) ==
  /\ At(c, "clear")
  /\ cache' = 0
  /\ Set(c, [job[c] EXCEPT !.at = "refresh", !.why = "401"])
  /\ UNCHANGED <<provider, team, tokens, held, member, closed, refreshMu>>

Return(c) ==
  /\ job[c].at \in {"done", "failed"}
  /\ Set(c, Idle)
  /\ UNCHANGED <<provider, team, tokens, held, cache, member, closed, refreshMu>>
-----------------------------------------------------------------------------
\* An access token expires or is withdrawn.
Expire ==
  /\ \E t \in live : live' = live \ {t}
  /\ UNCHANGED <<provider, team, issued, grant, held, cache, member, closed, refreshMu, job>>

\* Session.Close; adapters made before go on as they did.
Close ==
  /\ ~closed
  /\ closed' = TRUE /\ cache' = 0
  /\ UNCHANGED <<provider, team, tokens, held, member, refreshMu, job>>

\* SetCredentialsPersist, once the migration database exists ...
Wire ==
  /\ provider.rotates /\ ~wired
  /\ wired' = TRUE
  /\ UNCHANGED <<provider, team, tokens, stored, saved, lost, unsaved, cache, member, closed,
                 refreshMu, job>>

\* ... into which ExportStoredCredentials was, or is still to be, written.
Export ==
  /\ provider.rotates /\ ~closed /\ saved # stored
  /\ saved' = stored /\ unsaved' = FALSE
  /\ UNCHANGED <<provider, team, tokens, stored, wired, lost, cache, member, closed,
                 refreshMu, job>>

\* The process dies; the next one opens the session from the database.
Restart ==
  /\ stored' = saved
  /\ lost' = (saved # grant) /\ unsaved' = FALSE
  /\ wired' = provider.rotates
  /\ cache' = 0 /\ member' = FALSE /\ closed' = FALSE
  /\ refreshMu' = NoCaller
  /\ job' = [c \in Callers |-> Idle]
  /\ UNCHANGED <<provider, team, tokens, saved>>

Step(c) ==
  \/ TakeClient(c) \/ BeginRefresh(c) \/ Granted(c) \/ GrantLost(c) \/ RefreshFails(c)
  \/ Rotate(c) \/ Persist(c) \/ PersistFails(c) \/ StoreToken(c) \/ Recheck(c)
  \/ Probe(c) \/ Served(c) \/ Unauthorized(c) \/ Clear(c)

Next ==
  \/ \E c \in Callers : Call(c) \/ Step(c) \/ Return(c)
  \/ Expire \/ Close \/ Wire \/ Export \/ Restart

Spec == Init /\ [][Next]_vars

\* A goroutine that can go on does, and gets the mutex in the end.
FairSpec == Spec /\ \A c \in Callers : SF_vars(Step(c))
-----------------------------------------------------------------------------
Ats == {"idle", "client", "refresh", "asking", "rotate", "persist", "store", "recheck",
        "probe", "op", "clear", "done", "failed"}

\* A request that speaks for a team names a member, unless the session was
\* closed before the member was known.
MemberIsNamed ==
  \A c \in Callers : At(c, "op") /\ team /\ ~job[c].named => closed

\* Every variable keeps its type, and refreshMu is held exactly where Box's
\* refreshToken holds it, and MemberIsNamed.
TypeOK ==
  /\ provider \in Providers /\ team \in BOOLEAN
  /\ issued \in 0 .. MaxIssued /\ grant \in 0 .. issued /\ live \subseteq 1 .. issued
  /\ {stored, saved, cache} \subseteq 0 .. issued
  /\ {wired, member, closed, lost, unsaved} \subseteq BOOLEAN
  /\ job \in [Callers -> [at: Ats, token: 0 .. issued, for: {"op", "probe"},
                          why: {"client", "401"}, spend: 0 .. issued, got: 0 .. issued,
                          refreshed: BOOLEAN, named: BOOLEAN, retries: 0 .. MaxGenericRetries]]
  /\ \A c \in Callers :
       (refreshMu = c) <=> provider.rotates /\ job[c].at \in {"asking", "rotate", "persist"}
  /\ MemberIsNamed

\* Nobody presents a refresh token that was already spent, whatever callers
\* refresh at once: unless the provider's answer was lost, or a process died
\* before its rotation was saved, what is presented is what is accepted.
NoSpentToken ==
  \A c \in Callers : At(c, "asking") /\ ~lost => job[c].spend = grant

\* A rotated refresh token is kept where it will be looked for: in the session
\* once the refresh that brought it is over, and in the database unless nobody
\* took it there or that failed. So a restart between two refreshes never
\* locks the connection out.
RotationIsKept ==
  ~lost /\ refreshMu = NoCaller =>
    /\ stored = grant
    /\ unsaved \/ saved = grant

\* A call fails for a cause of its own: the provider or the database refused
\* what it asked. pkg/fs/README.md says of the workers that they "block until
\* success or a classified error (including auth after refresh fails)".
FailsForCause ==
  [][\A c \in Callers :
       At(c, "failed")' => job[c].at \in {"failed", "asking", "persist", "probe", "op"} \/ closed]_vars

\* Every call returns.
CallReturns == \A c \in Callers : At(c, "client") ~> job[c].at \in {"done", "failed", "idle"}
=============================================================================
