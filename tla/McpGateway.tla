----------------------------- MODULE McpGateway -----------------------------
(***************************************************************************)
(* The process that serves MCP: its start and stop (core/mcp-runtime.ts),  *)
(* the session over stdin and stdout (core/stdio-endpoint.ts), the table   *)
(* of HTTP sessions (core/mcp-gateway-server.ts), and the operator's       *)
(* choice of tools, which both must follow                                 *)
(* (core/tool-visibility-controller.ts, core/tool-visibility.ts).          *)
(*                                                                         *)
(* Functions are cut where they await.  The SDK decides how long it takes  *)
(* between an initialize request and onsessioninitialized: Initialize and  *)
(* Admit are two steps.  Half an hour of idleness may pass at any time.    *)
(* Plugins start and stop in one step here: WingPlugin shows what happens  *)
(* inside.                                                                 *)
(***************************************************************************)
EXTENDS Naturals, Sequences, FiniteSets, SequencesExt

CONSTANTS
    Absent,
    Tools,         \* every tool the plugins register
    GroupOf,       \* the group of a tool, or None: UNGROUPED_ID
    Writers,       \* tools that are not readOnly
    ProfileGroups, \* the groups of each profile that lists groups
    ReadOnlyProfiles, \* the profiles with readOnlyOnly
    Offers,       \* what the operator may ask for: [profile, enable, disable]
    MaxServed,   \* MAX_SESSIONS
    MaxInits,      \* bound: sessions ever created over HTTP
    MaxPuts,       \* bound: changes of the choice
    MaxFailures    \* bound: writes of the configuration file that fail

Profiles == DOMAIN ProfileGroups \cup ReadOnlyProfiles \cup {"all"}

ASSUME CatalogueAssumption ==
    /\ GroupOf \in [Tools -> Range(GroupOf)] /\ Writers \subseteq Tools
    /\ DOMAIN ProfileGroups \cap ReadOnlyProfiles = {} /\ "all" \notin ReadOnlyProfiles
    /\ \A c \in Offers : DOMAIN c = {"profile", "enable", "disable"}
    /\ MaxServed \in Nat \ {0} /\ MaxInits \in Nat /\ MaxPuts \in Nat /\ MaxFailures \in Nat

VARIABLES
    on,        \* the transports to serve
    start,     \* McpRuntime.start(): how far it got
    stop,      \* McpRuntime.stop(), and the exit after it
    plugins,   \* whether the plugins run
    http,      \* the HTTP server: "none", "open", "closed"
    stdio,     \* the tools the stdio session shows, or None
    attached,  \* whether the client that spawned the process is there
    made,      \* the tools each HTTP session shows, in the order of creation
    entering,  \* sessions created and not yet initialized
    table,     \* this.transports, the session not seen for longest first
    idle,      \* how many of these were not seen for SESSION_IDLE_TIMEOUT_MS
    choice,    \* ToolVisibilityController.visibility
    held,      \* server.tools in the configuration store's memory
    saved,      \* server.tools in the file
    puts,      \* PUT /api/tools: what was asked for, and how far it got
    taking,     \* what is being written, or None
    failures,  \* writes that failed
    missed     \* history: sessions that were being initialized during a change
               \*   of the choice, or when the others were closed

process == <<on, start, stop, plugins, http, stdio, attached>>
served == <<made, entering, table, idle>>
configuration == <<held, saved, puts, taking, failures>>
gatewayVars == <<process, served, choice, configuration, missed>>

-----------------------------------------------------------------------------
(* The group of a tool is among those named. *)
Names(ids, t) == GroupOf[t] # Absent /\ GroupOf[t] \in ids

(* Mutant: a group named under disable does not win over enable. *)
EnabledFirst(c, t) ==
    LET baseline == IF c.profile \in ReadOnlyProfiles \/ c.profile \notin Profiles
                    THEN t \notin Writers
                    ELSE GroupOf[t] = Absent \/ c.profile = "all" \/ GroupOf[t] \in ProfileGroups[c.profile]
        group == (baseline /\ ~Names(c.disable, t)) \/ Names(c.enable, t)
    IN (group \/ t \in c.enable) /\ t \notin c.disable

(* What a choice means. *)

(* resolveEnabledTools(): profile, enable(group), disable(group),          *)
(* enable(tool), disable(tool), each overriding the last.                  *)
Enabled(c, t) ==
    LET baseline == IF c.profile \in ReadOnlyProfiles \/ c.profile \notin Profiles
                    THEN t \notin Writers
                    ELSE GroupOf[t] = Absent \/ c.profile = "all" \/ GroupOf[t] \in ProfileGroups[c.profile]
        group == (baseline \/ Names(c.enable, t)) /\ ~Names(c.disable, t)
    IN (group \/ t \in c.enable) /\ t \notin c.disable

(* recompute() *)
Hidden == {t \in Tools : ~Enabled(choice, t)}

(* The tools createMcpServer() leaves enabled. *)
Shown == Tools \ Hidden

(* The transports of resolveTransportConfig(), one of them at least. *)
Transports == (SUBSET {"stdio", "http"}) \ {{}}

GatewayInit ==
    /\ on \in Transports
    /\ start = "plugins" /\ stop = "no" /\ plugins = FALSE /\ http = "none"
    /\ stdio = Absent /\ attached = ("stdio" \in on)
    /\ made = <<>> /\ entering = {} /\ table = <<>> /\ idle = 0
    /\ choice \in Offers /\ held = choice /\ saved = choice
    /\ puts = <<>> /\ taking = Absent /\ failures = 0 /\ missed = {}

-----------------------------------------------------------------------------
(* Starting. *)

StartPlugins ==
    /\ start = "plugins"
    /\ plugins' = TRUE
    /\ start' = IF "stdio" \in on THEN "stdio" ELSE "http"
    /\ UNCHANGED <<on, stop, http, stdio, attached, served, choice, configuration, missed>>

(* StdioEndpoint.start(), on a catalogue that load() has built. *)
StartStdio ==
    /\ start = "stdio"
    /\ stdio' = Shown
    /\ start' = IF "http" \in on THEN "http" ELSE "up"
    /\ UNCHANGED <<on, stop, plugins, http, attached, served, choice, configuration, missed>>

(* listen() resolves. *)
Listening == http' = "open" /\ start' = "up"

(* listen() rejects: start() goes on where there is a client on stdin, and *)
(* throws otherwise.                                                       *)
ListenFails == http' = "none" /\ start' = IF "stdio" \in on THEN "up" ELSE "refused"

(* McpGatewayServer.init(), to the end *)
Listen ==
    /\ start = "http"
    /\ Listening \/ ListenFails
    /\ UNCHANGED <<on, stop, plugins, stdio, attached, served, choice, configuration, missed>>

-----------------------------------------------------------------------------
(* HTTP sessions. *)

(* The POST of an initialize request: the session's server is made now.    *)
Initialize ==
    /\ http = "open" /\ Len(made) < MaxInits
    /\ made' = Append(made, Shown)
    /\ entering' = entering \cup {Len(made) + 1}
    /\ UNCHANGED <<process, table, idle, choice, configuration, missed>>

(* onsessioninitialized(): the session that was not seen for longest makes *)
(* room.                                                                   *)
Admit(s) ==
    /\ s \in entering
    /\ entering' = entering \ {s}
    /\ IF Len(table) < MaxServed
       THEN table' = Append(table, s) /\ idle' = idle
       ELSE table' = Append(Tail(table), s) /\ idle' = IF idle = 0 THEN 0 ELSE idle - 1
    /\ UNCHANGED <<process, made, choice, configuration, missed>>

(* The i-th is no longer where it was. *)
TakenOut(i) == idle' = IF i <= idle THEN idle - 1 ELSE idle

(* A request of a session it knows. *)
Use(i) ==
    /\ http = "open"
    /\ table' = Append(RemoveAt(table, i), table[i]) /\ TakenOut(i)
    /\ UNCHANGED <<process, made, entering, choice, configuration, missed>>

(* DELETE /mcp, or the transport closed: transport.onclose. *)
Close(i) ==
    /\ table' = RemoveAt(table, i) /\ TakenOut(i)
    /\ UNCHANGED <<process, made, entering, choice, configuration, missed>>

HalfAnHour ==
    /\ \E n \in 1..Len(table) : n >= idle /\ idle' = n
    /\ UNCHANGED <<process, made, entering, table, choice, configuration, missed>>

(* sweepIdleSessions() *)
Sweep ==
    /\ http = "open" /\ stop \in {"no", "stdio"}
    /\ table' = SubSeq(table, idle + 1, Len(table)) /\ idle' = 0
    /\ UNCHANGED <<process, made, entering, choice, configuration, missed>>

-----------------------------------------------------------------------------
(* The choice of tools. *)

Saving == {n \in DOMAIN puts : puts[n].at = "saving"}
FirstSaving == CHOOSE n \in Saving : \A m \in Saving : n <= m

(* The stdio session's listener. *)
TellStdio == stdio' = IF stdio = Absent THEN Absent ELSE Shown'

(* applyToolVisibilityToLiveSessions() *)
TellTable == made' = [s \in DOMAIN made |-> IF s \in Range(table) THEN Shown' ELSE made[s]]

(* Mutant: a change is in force as soon as it was asked for. *)
PutAtOnce(c) ==
    /\ http = "open" /\ Len(puts) < MaxPuts /\ c.profile \in Profiles
    /\ held' = c /\ choice' = c
    /\ puts' = Append(puts, [asked |-> c, at |-> "done"])
    /\ TellStdio /\ TellTable
    /\ missed' = missed \cup entering
    /\ UNCHANGED <<on, start, stop, plugins, http, attached, entering, table, idle, saved, taking, failures>>

SaveFails ==
    /\ taking # Absent /\ failures < MaxFailures
    /\ taking' = Absent /\ failures' = failures + 1
    /\ puts' = [puts EXCEPT ![FirstSaving].at = "failed"]
    /\ UNCHANGED <<process, served, choice, held, saved, missed>>

(* PUT /api/tools, a known profile: update() changes the store's memory    *)
(* and waits for its write.                                                *)
Put(c) ==
    /\ http = "open" /\ Len(puts) < MaxPuts /\ c.profile \in Profiles
    /\ held' = c
    /\ puts' = Append(puts, [asked |-> c, at |-> "saving"])
    /\ UNCHANGED <<process, served, choice, saved, taking, failures, missed>>

(* writeNow(): what the store holds by then is written. *)
WriteTaken ==
    /\ Saving # {} /\ taking = Absent
    /\ taking' = held
    /\ UNCHANGED <<process, served, choice, held, saved, puts, failures, missed>>

(* The file is replaced; update() puts the choice into force, and every    *)
(* session there is is told.                                               *)
WriteDone ==
    /\ taking # Absent
    /\ taking' = Absent /\ saved' = taking
    /\ puts' = [puts EXCEPT ![FirstSaving].at = "done"]
    /\ choice' = puts[FirstSaving].asked
    /\ TellStdio /\ TellTable
    /\ missed' = missed \cup entering
    /\ UNCHANGED <<on, start, stop, plugins, http, attached, entering, table, idle, held, failures>>

-----------------------------------------------------------------------------
(* Stopping. *)

StopOnce == stop' = IF stop = "no" THEN "stdio" ELSE stop

(* stop() runs its first steps at once: nothing is awaited for a transport *)
(* there is not.  The sweep's timer is cleared with the gateway's first.   *)
(* Nobody listens to signals before start() is through.                    *)
Signal ==
    /\ start = "up" /\ stop = "no"
    /\ StopOnce
    /\ UNCHANGED <<on, start, plugins, http, stdio, attached, served, choice, configuration, missed>>

(* The client that spawned the process goes away: notifyDisconnect(). *)
Disconnect ==
    /\ attached /\ stdio # Absent
    /\ attached' = FALSE
    /\ StopOnce
    /\ UNCHANGED <<on, start, plugins, http, stdio, served, choice, configuration, missed>>

StopStdio ==
    /\ stop = "stdio"
    /\ stdio' = Absent
    /\ stop' = IF "http" \in on THEN "hub" ELSE "plugins"
    /\ UNCHANGED <<on, start, plugins, http, attached, served, choice, configuration, missed>>

(* WsHub.close() and the HTTP server's close, with its connections. *)
StopHttp ==
    /\ stop = "hub"
    /\ http' = IF http = "open" THEN "closed" ELSE http
    /\ stop' = "sessions"
    /\ UNCHANGED <<on, start, plugins, stdio, attached, served, choice, configuration, missed>>

StopSessions ==
    /\ stop = "sessions" /\ stop' = "plugins"
    /\ table' = <<>> /\ idle' = 0 /\ missed' = missed \cup entering
    /\ UNCHANGED <<on, start, plugins, http, stdio, attached, made, entering, choice, configuration>>

(* Mutant: nothing exits the process for a client that is gone. *)
OnlySignalsExit ==
    /\ stop = "stopped" /\ attached /\ stop' = "exited"
    /\ UNCHANGED <<on, start, plugins, http, stdio, attached, served, choice, configuration, missed>>

StopPlugins ==
    /\ stop = "plugins" /\ stop' = "stopped"
    /\ plugins' = FALSE
    /\ UNCHANGED <<on, start, http, stdio, attached, served, choice, configuration, missed>>

(* exitAfterFlush() *)
Exit ==
    /\ stop = "stopped" /\ stop' = "exited"
    /\ UNCHANGED <<on, start, plugins, http, stdio, attached, served, choice, configuration, missed>>

Alive == stop # "exited"

GatewayNext ==
    /\ Alive
    /\ \/ StartPlugins \/ StartStdio \/ Listen
       \/ Initialize \/ HalfAnHour \/ Sweep
       \/ \E s \in entering : Admit(s)
       \/ \E i \in DOMAIN table : Use(i) \/ Close(i)
       \/ \E c \in Offers : Put(c)
       \/ WriteTaken \/ SaveFails \/ WriteDone
       \/ Signal \/ Disconnect
       \/ StopStdio \/ StopHttp \/ StopSessions \/ StopPlugins \/ Exit

GatewaySpec == GatewayInit /\ [][GatewayNext]_gatewayVars

(* Steps the process takes by itself; a client, a signal or the clock need *)
(* not come.                                                               *)
GatewayFairness ==
    /\ WF_gatewayVars(Alive /\ (StartPlugins \/ StartStdio \/ Listen))
    /\ WF_gatewayVars(Alive /\ (StopStdio \/ StopHttp \/ StopSessions \/ StopPlugins \/ Exit))
    /\ WF_gatewayVars(Alive /\ (WriteTaken \/ WriteDone))

-----------------------------------------------------------------------------
(* Properties. *)

(* Types, and that the table holds each session once and within its limit. *)
GatewayTypeOK ==
    /\ on \subseteq {"stdio", "http"} /\ start \in {"plugins", "stdio", "http", "up", "refused"}
    /\ stop \in {"no", "stdio", "hub", "sessions", "plugins", "stopped", "exited"}
    /\ plugins \in BOOLEAN /\ http \in {"none", "open", "closed"} /\ attached \in BOOLEAN
    /\ stdio = Absent \/ stdio \subseteq Tools
    /\ made \in Seq(SUBSET Tools) /\ entering \subseteq 1..Len(made)
    /\ table \in Seq(1..Len(made)) /\ Len(table) <= MaxServed /\ idle \in 0..Len(table)
    /\ \A i \in 1..Len(table) : table[i] \notin entering /\ \A j \in 1..Len(table) : table[i] = table[j] => i = j
    /\ choice \in Offers /\ held \in Offers /\ saved \in Offers /\ taking \in Offers \cup {Absent}
    /\ puts \in Seq([asked : Offers, at : {"saving", "done", "failed"}])
    /\ failures \in Nat /\ missed \subseteq Nat

(* What names a tool in a choice, the last word first. *)
LastWord(c, t) ==
    IF t \in c.disable THEN FALSE
    ELSE IF t \in c.enable THEN TRUE
    ELSE IF Names(c.disable, t) THEN FALSE
    ELSE IF Names(c.enable, t) THEN TRUE
    ELSE IF c.profile \notin Profiles \/ c.profile \in ReadOnlyProfiles THEN t \notin Writers
    ELSE c.profile = "all" \/ GroupOf[t] = Absent \/ GroupOf[t] \in ProfileGroups[c.profile]

(* Every session of every transport offers exactly the tools the operator  *)
(* last chose, whatever was asked for in between, failed to be saved or    *)
(* came while others were being created; a read-only profile that is       *)
(* misspelt offers no tool that writes.  Only a session that was being     *)
(* initialized when the choice changed may have missed it.                 *)
SessionsFollowChoice ==
    LET wanted == {t \in Tools : LastWord(choice, t)}
    IN /\ stdio # Absent => stdio = wanted
       /\ \A s \in Range(table) \ missed : made[s] = wanted

(* As long as no write fails, what the sessions show once every change is  *)
(* answered is what the file says ("persists, then applies"): no answered  *)
(* change is lost in a restart, and none that was not answered is shown.   *)
ShownIsSaved == failures = 0 /\ Saving = {} => choice = saved

(* The process never outlives the client that spawned it.                  *)
NobodyLeftBehind == (stdio # Absent /\ ~attached) ~> (stop = "exited")
=============================================================================
