---------------------------- MODULE Credentials ----------------------------
(***************************************************************************)
(* Who may use the server, and what of that outlives it: the OAuth clients *)
(* and their grants (core/oauth.ts), the passkeys and the web sessions     *)
(* opened with them (core/passkeys.ts), and the configuration store that   *)
(* writes them all to one file, one write after the other                  *)
(* (core/config-store.ts).  A handler is cut where it awaits a save or a   *)
(* verification; the server may stop, and start again from its file, at    *)
(* any of these places.                                                    *)
(*                                                                         *)
(* A grant stands for its access and its refresh token, which come and go  *)
(* together; a client has one authorization under way at a time.  Every    *)
(* client, grant, passkey, session and challenge has a number of its own,   *)
(* given in turn, so that the oldest of some is the one numbered least.     *)
(* The checks a request passes before its handler (the SDK's and the       *)
(* bearer's) end in microtasks and are taken with the handler's first step.*)
(***************************************************************************)
EXTENDS Integers, Sequences, FiniteSets

CONSTANTS
    None,
    MaxClients,   \* CLIENTS_STORE_MAX_SIZE
    MaxGrants,    \* MAX_GRANTS_PER_CLIENT
    MaxSessions,  \* SESSIONS_MAX_SIZE
    MaxChallenges,\* CHALLENGES_MAX_SIZE
    MaxCalls,     \* bound: requests that save something
    MaxFresh,     \* bound: numbers given out before a last challenge
    MaxTroubles   \* bound: writes that fail, and restarts

ASSUME LimitsAssumption ==
    /\ MaxClients \in Nat \ {0} /\ MaxGrants \in Nat \ {0}
    /\ MaxSessions \in Nat \ {0} /\ MaxChallenges \in Nat \ {0}
    /\ MaxCalls \in Nat /\ MaxFresh \in Nat /\ MaxTroubles \in Nat

VARIABLES
    clients,     \* InMemoryClientsStore.clients
    grants,      \* OAuthTokenStore.tokens: [id, owner]
    pending,     \* clients whose authorization waits for approval
    codes,       \* clients that were given a code
    keys,        \* PasskeyService.passkeys
    sessions,    \* PasskeyService.sessions: [id, owner]
    challenges,  \* PasskeyService.challenges: [id, purpose]
    fresh,       \* the last number given out
    calls,       \* the requests, and how far each got
    writes,      \* writeQueue: the call that waits for each write, or 0
    taken,       \* what the first of them is writing, or None
    file,        \* the configuration file
    troubles,    \* failed writes and restarts so far
    promised,    \* history: grants and sessions somebody was told of
    ended,       \* history: those reported ended after a save of their own
    heirs,       \* history: what was made with each grant and challenge
    late         \* history: what was made for an owner forgotten meanwhile

memory == <<clients, grants, keys, sessions>>
flows == <<pending, codes, challenges>>
store == <<writes, taken, file, troubles>>
history == <<promised, ended, heirs, late>>
vars == <<memory, flows, fresh, calls, store, history>>

Owned == [id : Nat, owner : Nat]
Data == [clients : SUBSET Nat, grants : SUBSET Owned, keys : SUBSET Nat, sessions : SUBSET Owned]
Call == [op : {"register", "exchange", "refresh", "revoke", "forget", "login", "approve",
               "addKey", "dropKey", "logout"},
         arg : Nat, using : Nat, made : Nat, gone : SUBSET Nat,
         at : {"verifying", "noting", "ending", "saving", "done", "failed", "lost"}]

Memory == [clients |-> clients, grants |-> grants, keys |-> keys, sessions |-> sessions]

(* A server that has been used: one client with a grant and one passkey   *)
(* with a session, all of them saved.                                     *)
Init ==
    /\ clients = {1} /\ grants = {[id |-> 2, owner |-> 1]}
    /\ keys = {3} /\ sessions = {[id |-> 4, owner |-> 3]} /\ fresh = 4
    /\ pending = {} /\ codes = {} /\ challenges = {}
    /\ calls = <<>> /\ writes = <<>> /\ taken = None /\ troubles = 0
    /\ file = Memory
    /\ promised = {2, 4} /\ ended = {} /\ heirs = [i \in 1..(MaxFresh + MaxCalls) |-> {}] /\ late = {}

Held(set) == {x.id : x \in set}
Of(owned, o) == Held({x \in owned : x.owner = o})
Without(set, gone) == {x \in set : x.id \notin gone}
Registered(c) == c \in clients

(* All but the newest n; and the oldest, if there are n. *)
AllBut(n, ids) == {i \in ids : Cardinality({j \in ids : j > i}) >= n}
OldestOf(n, ids) == IF Cardinality(ids) < n THEN {} ELSE {i \in ids : \A j \in ids : i <= j}

-----------------------------------------------------------------------------
(* Steps of the handlers. *)

Me == Len(calls) + 1
Room == Len(calls) < MaxCalls

Begun(op, arg, using, made, gone, at) ==
    calls' = Append(calls, [op |-> op, arg |-> arg, using |-> using, made |-> made,
                            gone |-> gone, at |-> at])

(* ConfigStore.persist(): the write waits behind those before it. *)
Save(n) == writes' = Append(writes, n)

(* What is no longer in memory nobody is promised. *)
Forgets(gone) == promised' = promised \ gone

Makes(using) == heirs' = IF using = 0 THEN heirs ELSE [heirs EXCEPT ![using] = @ \cup {fresh + 1}]

Orphan(known) == late' = IF known THEN late ELSE late \cup {fresh + 1}

BeingForgotten(c) ==
    \E n \in DOMAIN calls : calls[n].op = "forget" /\ calls[n].arg = c /\ calls[n].at = "ending"

(* Mutant: the limit is enforced as if nothing were to be added. *)
IssueOneMore(c, old) ==
    LET spare == AllBut(MaxGrants, Of(grants, c))
    IN /\ grants' = Without(grants, spare) \cup {[id |-> fresh + 1, owner |-> c]}
       /\ fresh' = fresh + 1
       /\ Forgets(spare) /\ Makes(old) /\ Orphan(Registered(c) /\ ~BeingForgotten(c))

(* OAuthTokenStore.issue(), with the oldest grants over the limit dropped. *)
Issue(c, old) ==
    LET spare == AllBut(MaxGrants - 1, Of(grants, c))
    IN /\ grants' = Without(grants, spare) \cup {[id |-> fresh + 1, owner |-> c]}
       /\ fresh' = fresh + 1
       /\ Forgets(spare) /\ Makes(old) /\ Orphan(Registered(c) /\ ~BeingForgotten(c))

(* createSession() *)
OpenSession(k, challenge) ==
    LET spare == OldestOf(MaxSessions, Held(sessions))
    IN /\ sessions' = Without(sessions, spare) \cup {[id |-> fresh + 1, owner |-> k]}
       /\ fresh' = fresh + 1
       /\ Forgets(spare) /\ Makes(challenge) /\ Orphan(k \in keys)

-----------------------------------------------------------------------------
(* OAuth. *)

(* Mutant: nobody tells the token store of an evicted registration. *)
RegisterKeepingTokens ==
    /\ Room
    /\ clients' = (clients \ OldestOf(MaxClients, clients)) \cup {fresh + 1}
    /\ Save(Me) /\ fresh' = fresh + 1
    /\ Begun("register", fresh + 1, 0, 0, {}, "saving")
    /\ UNCHANGED <<grants, keys, sessions, flows, taken, file, troubles, history>>

(* registerClient(): a full store forgets its oldest client, and saves    *)
(* without waiting that the tokens went with it.                          *)
Register ==
    /\ Room
    /\ LET out == OldestOf(MaxClients, clients)
           gone == UNION {Of(grants, c) : c \in out}
       IN /\ clients' = (clients \ out) \cup {fresh + 1}
          /\ grants' = Without(grants, gone) /\ Forgets(gone)
          /\ writes' = writes \o (IF gone = {} THEN <<Me>> ELSE <<0, Me>>)
    /\ fresh' = fresh + 1
    /\ Begun("register", fresh + 1, 0, 0, {}, "saving")
    /\ UNCHANGED <<keys, sessions, flows, taken, file, troubles, ended, heirs, late>>

(* authorize() *)
Authorize(c) ==
    /\ Registered(c) /\ c \notin pending
    /\ pending' = pending \cup {c}
    /\ UNCHANGED <<memory, codes, challenges, fresh, calls, store, history>>

(* approve(), of the form with the server's token *)
Approve(c) ==
    /\ c \in pending /\ pending' = pending \ {c} /\ codes' = codes \cup {c}
    /\ UNCHANGED <<memory, challenges, fresh, calls, store, history>>

(* exchangeAuthorizationCode() *)
Exchange(c) ==
    /\ Room /\ c \in codes /\ Registered(c)
    /\ codes' = codes \ {c}
    /\ Issue(c, 0)
    /\ Begun("exchange", c, 0, fresh + 1, {}, "saving") /\ Save(Me)
    /\ UNCHANGED <<clients, keys, sessions, pending, challenges, taken, file, troubles, ended>>

(* Mutant: the old grant is only ended when the new one is there. *)
RefreshEndingLate(g) ==
    /\ Room /\ g \in Held(grants)
    /\ LET c == (CHOOSE x \in grants : x.id = g).owner
       IN Registered(c) /\ Begun("refresh", c, g, 0, {g}, "ending")
    /\ Save(Me)
    /\ UNCHANGED <<memory, flows, fresh, taken, file, troubles, history>>

(* exchangeRefreshToken(): the grant is ended and the new one is issued   *)
(* when that is saved.                                                    *)
Refresh(g) ==
    /\ Room /\ g \in Held(grants)
    /\ LET c == (CHOOSE x \in grants : x.id = g).owner
       IN Registered(c) /\ Begun("refresh", c, g, 0, {g}, "ending")
    /\ grants' = Without(grants, {g}) /\ Forgets({g}) /\ Save(Me)
    /\ UNCHANGED <<clients, keys, sessions, flows, fresh, taken, file, troubles, ended, heirs, late>>

(* revokeToken(); one that is not valid is answered as if it had been. *)
Revoke(g) ==
    /\ Room /\ g \in Held(grants) \cap promised
    /\ Begun("revoke", g, 0, 0, {g}, "saving")
    /\ grants' = Without(grants, {g}) /\ Forgets({g}) /\ Save(Me)
    /\ UNCHANGED <<clients, keys, sessions, flows, fresh, taken, file, troubles, ended, heirs, late>>

(* revokeClient(), up to the save of its tokens; the client itself goes in *)
(* a second step, at once if it has no tokens.                             *)
Forget(c) ==
    /\ Room /\ Registered(c)
    /\ codes' = codes \ {c} /\ pending' = pending \ {c}
    /\ LET gone == Of(grants, c)
       IN /\ grants' = Without(grants, gone) /\ Forgets(gone)
          /\ clients' = IF gone = {} THEN clients \ {c} ELSE clients
          /\ Begun("forget", c, 0, 0, gone, IF gone = {} THEN "saving" ELSE "ending")
    /\ Save(Me)
    /\ UNCHANGED <<keys, sessions, challenges, fresh, taken, file, troubles, ended, heirs, late>>

-----------------------------------------------------------------------------
(* Passkeys. *)

(* registrationOptions() or authenticationOptions(): a challenge, good for *)
(* one of the two.                                                         *)
Offer(purpose) ==
    /\ fresh < MaxFresh /\ (purpose = "login" => keys # {})
    /\ challenges' = Without(challenges, OldestOf(MaxChallenges, Held(challenges)))
                       \cup {[id |-> fresh + 1, purpose |-> purpose]}
    /\ fresh' = fresh + 1
    /\ UNCHANGED <<memory, pending, codes, calls, store, history>>

(* authenticate(): the passkey is looked up, its response verified later.  *)
(* The login opens a session, or approves an authorization.                *)
Login(k, challenge) ==
    /\ Room /\ k \in keys
    /\ Begun("login", k, challenge, 0, {}, "verifying")
    /\ UNCHANGED <<memory, flows, fresh, store, history>>

ApproveByPasskey(c, challenge) ==
    /\ Room /\ c \in pending /\ keys # {}
    /\ Begun("approve", c, challenge, 0, {}, "verifying")
    /\ UNCHANGED <<memory, flows, fresh, store, history>>

(* register() *)
AddKey(challenge) ==
    /\ Room /\ Begun("addKey", 0, challenge, 0, {}, "verifying")
    /\ UNCHANGED <<memory, flows, fresh, store, history>>

Purpose(n) == IF calls[n].op = "addKey" THEN "register" ELSE "login"

(* Mutant: a challenge is good until it expires. *)
SpendNot(id) == UNCHANGED challenges

(* challengeChecker(): a challenge is spent by the first response to it. *)
Spend(id) == challenges' = Without(challenges, {id})

(* A response is verified, or not; a login's counter is saved, a new       *)
(* passkey is saved.                                                       *)
Verified(n) ==
    LET call == calls[n]
        good == [id |-> call.using, purpose |-> Purpose(n)] \in challenges
    IN /\ call.at = "verifying" /\ Spend(call.using)
       /\ \/ /\ good /\ Save(n)
             /\ IF call.op = "addKey"
                THEN /\ keys' = keys \cup {fresh + 1} /\ fresh' = fresh + 1
                     /\ Makes(call.using)
                     /\ calls' = [calls EXCEPT ![n].at = "saving", ![n].made = fresh + 1]
                ELSE /\ calls' = [calls EXCEPT ![n].at = "noting"]
                     /\ UNCHANGED <<keys, fresh, heirs>>
          \/ /\ calls' = [calls EXCEPT ![n].at = "failed"]
             /\ UNCHANGED <<keys, fresh, heirs, writes>>
       /\ UNCHANGED <<clients, grants, sessions, pending, codes, taken, file, troubles, promised,
                      ended, late>>

(* remove(): the sessions opened with the passkey go with it. *)
DropKey(k) ==
    /\ Room /\ k \in keys
    /\ keys' = keys \ {k}
    /\ LET gone == Of(sessions, k)
       IN /\ sessions' = Without(sessions, gone) /\ Forgets(gone)
          /\ Begun("dropKey", k, 0, 0, gone, "saving")
    /\ Save(Me)
    /\ UNCHANGED <<clients, grants, flows, fresh, taken, file, troubles, ended, heirs, late>>

(* revokeSession() *)
Logout(s) ==
    /\ Room /\ s \in Held(sessions) \cap promised
    /\ sessions' = Without(sessions, {s}) /\ Forgets({s})
    /\ Begun("logout", s, 0, 0, {s}, "saving") /\ Save(Me)
    /\ UNCHANGED <<clients, grants, keys, flows, fresh, taken, file, troubles, ended, heirs, late>>

(* sweepExpired() and rememberChallenge() drop what got too old. *)
Expire ==
    /\ \/ \E c \in pending : pending' = pending \ {c} /\ UNCHANGED <<codes, challenges>>
       \/ \E c \in codes : codes' = codes \ {c} /\ UNCHANGED <<pending, challenges>>
       \/ /\ challenges # {} /\ challenges' = Without(challenges, OldestOf(1, Held(challenges)))
          /\ UNCHANGED <<pending, codes>>
    /\ UNCHANGED <<memory, fresh, calls, store, history>>

-----------------------------------------------------------------------------
(* The configuration store. *)

(* Mutant: the file is written anew with what was read from it. *)
TakeOld == file

(* writeNow(): what the store holds is taken when the write begins. *)
Take == Memory

BeginWrite ==
    /\ writes # <<>> /\ taken = None
    /\ taken' = Take
    /\ UNCHANGED <<memory, flows, fresh, calls, writes, file, troubles, history>>

Ends(n, at) == calls' = [calls EXCEPT ![n].at = at]

(* A call that made something waits for its second save. *)
SavesAgain(n) ==
    /\ calls' = [calls EXCEPT ![n].at = "saving", ![n].made = fresh + 1]
    /\ writes' = Append(Tail(writes), n)

(* The last save: what was made or ended is reported. *)
Reports(n) ==
    /\ calls[n].at = "saving" /\ Ends(n, "done") /\ writes' = Tail(writes)
    /\ promised' = promised \cup ({calls[n].made} \cap (Held(grants) \cup Held(sessions)))
    /\ ended' = ended \cup calls[n].gone
    /\ UNCHANGED <<memory, flows, fresh, heirs, late>>

Reissues(n) ==
    /\ calls[n].op = "refresh" /\ calls[n].at = "ending"
    /\ Issue(calls[n].arg, calls[n].using) /\ SavesAgain(n)
    /\ UNCHANGED <<clients, keys, sessions, flows, ended>>

(* clientsStore.remove() *)
Removes(n) ==
    /\ calls[n].op = "forget" /\ calls[n].at = "ending"
    /\ clients' = clients \ {calls[n].arg}
    /\ IF Registered(calls[n].arg)
       THEN Ends(n, "saving") /\ writes' = Append(Tail(writes), n) /\ UNCHANGED ended
       ELSE Ends(n, "done") /\ writes' = Tail(writes) /\ ended' = ended \cup calls[n].gone
    /\ UNCHANGED <<grants, keys, sessions, flows, fresh, promised, heirs, late>>

Opens(n) ==
    /\ calls[n].op = "login" /\ calls[n].at = "noting"
    /\ OpenSession(calls[n].arg, calls[n].using) /\ SavesAgain(n)
    /\ UNCHANGED <<clients, grants, keys, flows, ended>>

Approves(n) ==
    /\ calls[n].op = "approve" /\ calls[n].at = "noting" /\ writes' = Tail(writes)
    /\ LET c == calls[n].arg
       IN IF c \in pending
          THEN Ends(n, "done") /\ pending' = pending \ {c} /\ codes' = codes \cup {c}
          ELSE Ends(n, "failed") /\ UNCHANGED <<pending, codes>>
    /\ UNCHANGED <<memory, challenges, fresh, history>>

(* The file is renamed into place, and the handler that waited goes on. *)
EndWrite ==
    /\ taken # None /\ taken' = None /\ file' = taken /\ UNCHANGED troubles
    /\ LET n == Head(writes)
       IN IF n = 0 THEN writes' = Tail(writes) /\ UNCHANGED <<memory, flows, fresh, calls, history>>
          ELSE Reports(n) \/ Reissues(n) \/ Removes(n) \/ Opens(n) \/ Approves(n)

(* The queue is kept alive whatever becomes of a write. *)
QueueAfter == Tail(writes)

WriteFails ==
    /\ taken # None /\ troubles < MaxTroubles /\ troubles' = troubles + 1
    /\ taken' = None /\ writes' = QueueAfter
    /\ IF Head(writes) = 0 THEN UNCHANGED calls ELSE Ends(Head(writes), "failed")
    /\ UNCHANGED <<memory, flows, fresh, file, history>>

Over(n) == calls[n].at \in {"done", "failed", "lost"}

(* The server stops, and starts again from its file. *)
Restart ==
    /\ troubles < MaxTroubles /\ troubles' = troubles + 1
    /\ clients' = file.clients /\ grants' = file.grants
    /\ keys' = file.keys /\ sessions' = file.sessions
    /\ pending' = {} /\ codes' = {} /\ challenges' = {}
    /\ calls' = [n \in DOMAIN calls |-> IF Over(n) THEN calls[n] ELSE [calls[n] EXCEPT !.at = "lost"]]
    /\ writes' = <<>> /\ taken' = None
    /\ UNCHANGED <<fresh, file, history>>

-----------------------------------------------------------------------------
Next ==
    \/ Register \/ \E c \in clients : Authorize(c) \/ Forget(c)
    \/ \E c \in pending : Approve(c)
    \/ \E c \in codes : Exchange(c)
    \/ \E g \in Held(grants) : Refresh(g) \/ Revoke(g)
    \/ \E k \in keys : DropKey(k)
    \/ \E s \in Held(sessions) : Logout(s)
    \/ \E purpose \in {"login", "register"} : Offer(purpose)
    \/ \E x \in challenges :
         \/ AddKey(x.id)
         \/ \E k \in keys : Login(k, x.id)
         \/ \E c \in pending : ApproveByPasskey(c, x.id)
    \/ \E n \in DOMAIN calls : Verified(n)
    \/ Expire \/ BeginWrite \/ EndWrite \/ WriteFails \/ Restart

Spec == Init /\ [][Next]_vars

-----------------------------------------------------------------------------
TypeOK ==
    /\ clients \subseteq Nat /\ grants \subseteq Owned /\ keys \subseteq Nat /\ sessions \subseteq Owned
    /\ file \in Data /\ taken \in Data \cup {None}
    /\ pending \subseteq Nat /\ codes \subseteq Nat /\ fresh \in Nat /\ troubles \in Nat
    /\ challenges \subseteq [id : Nat, purpose : {"login", "register"}]
    /\ calls \in Seq(Call) /\ writes \in Seq(0..Len(calls)) /\ (taken # None => writes # <<>>)
    /\ promised \subseteq Nat /\ ended \subseteq Nat /\ late \subseteq Nat
    /\ heirs \in [1..(MaxFresh + MaxCalls) -> SUBSET Nat]

(* What the server told somebody it issued is in its file until it is      *)
(* ended, and what it reported ended after saving that never comes back:   *)
(* whenever it stops, a restart neither logs out nor resurrects.           *)
RestartKeepsPromises ==
    LET saved == Held(file.grants) \cup Held(file.sessions)
    IN /\ promised \subseteq saved
       /\ ended \cap (saved \cup Held(grants) \cup Held(sessions)) = {}

(* A refresh token and a challenge each buy one thing at most, however     *)
(* often they are presented and whatever fails in between.                 *)
SpentOnce == \A i \in DOMAIN heirs : Cardinality(heirs[i]) <= 1

(* A grant belongs to a registered client and a session to a registered    *)
(* passkey, but for those made by a request that was under way when the    *)
(* client or the passkey was removed.                                      *)
NothingOutlivesItsOwner ==
    /\ \A g \in grants : Registered(g.owner) \/ g.id \in late
    /\ \A s \in sessions : s.owner \in keys \/ s.id \in late

(* "Forgets the client and every token it holds", and "closes every web    *)
(* session that was opened with it": not so for what is under way.         *)
OwnersTakeAllWithThem ==
    /\ \A g \in grants : Registered(g.owner)
    /\ \A s \in sessions : s.owner \in keys
=============================================================================
