---------------------------- MODULE DashboardApi ----------------------------
(***************************************************************************)
(* The REST API the dashboard works through: the routes the gateway mounts, *)
(* in the order Express tries them (core/mcp-gateway-server.ts,             *)
(* core/passkeys.ts, http-routes/*.ts), and the hooks that call them        *)
(* (web/src/api/queries.ts), each with the queries of the page's cache that *)
(* it makes stale.                                                          *)
(*                                                                          *)
(* A route either shows some things, changes some, or neither ("runs": what *)
(* it does reaches the page another way, over the live topics or in its own *)
(* answer). What is followed is one query of a page, one hook that changes  *)
(* what the query shows, and everything that may pass between the two:      *)
(* reads under way, answers that come late or not at all, somebody else's   *)
(* changes, the console going away and coming back.                         *)
(***************************************************************************)
EXTENDS Naturals, Sequences, SequencesExt

CONSTANTS
    MaxOwn,     \* bound: how often the hook is called
    MaxOthers,  \* bound: changes by anybody else
    MaxOutages, \* bound: times the console is seen to go away
    MaxLostGets \* bound: reads that fail

-----------------------------------------------------------------------------
(* Routes. A path is the sequence of its segments, Any where it has a       *)
(* parameter.                                                               *)
Any1 == "*"
Route(verb, path, does, of) == [verb |-> verb, path |-> path, does |-> does, of |-> of]
Shows(path, of) == Route("GET", path, "shows", of)
Changes(verb, path, of) == Route(verb, path, "changes", of)
Runs(verb, path) == Route(verb, path, "runs", {})
Both(path, of) == <<Shows(path, of), Changes("POST", path, of)>>

OnChannel == <<"channels", Any1>>
OnAux == <<"aux", Any1>>
OnStrip == <<"strips", Any1, Any1>>
AtStrip(strip, route) == [route EXCEPT !.path = strip \o @]
\* The patterns every per-strip route is registered with: here the rest of its path is given.
ForStrips(routes) ==
    FlattenSeq([i \in 1..3 |-> [j \in DOMAIN routes |-> AtStrip(<<OnChannel, OnAux, OnStrip>>[i], routes[j])]])

OverviewRoutes ==
    <<Runs("GET", <<"discover">>), Shows(<<"state">>, {"state"}), Runs("GET", <<"rta">>)>>
    \o Both(<<"rta", "source">>, {"rta source"})

MediaRoutes ==
    <<Shows(<<"media">>, {"media"}), Changes("POST", <<"media", "play">>, {"media"}),
      Changes("POST", <<"media", "rec">>, {"media"}), Changes("POST", <<"media", "repeat">>, {"media"}),
      Runs("GET", <<"wlive", "status">>), Runs("POST", <<"wlive", Any1, "transport">>),
      Runs("POST", <<"wlive", Any1, "session">>), Runs("POST", <<"wlive", Any1, "marker">>),
      Runs("POST", <<"wlive", Any1, "format">>)>>

\* Within a budget: the strips not read by then are left out of the answer.
SnapshotRoute == <<Shows(<<"mixer-state">>, {"mixer"})>>
SendsRoutes ==
    <<Shows(OnChannel \o <<"sends">>, {"sends"}), Shows(OnAux \o <<"sends">>, {"sends"}),
      Shows(<<"bus", Any1, "sends">>, {"sends"}), Shows(<<"main", Any1, "sends">>, {"sends"})>>
MixerRoutes == SnapshotRoute \o SendsRoutes

ParamPanelRoutes ==
    <<Shows(OnChannel \o <<"eq">>, {"panel"}), Shows(OnChannel \o <<"gate">>, {"panel"}),
      Shows(OnChannel \o <<"dyn">>, {"panel"}), Shows(OnChannel \o <<"in", "conn">>, {"panel"}),
      Shows(OnAux \o <<"eq">>, {"panel"}), Shows(OnAux \o <<"dyn">>, {"panel"}),
      Shows(OnAux \o <<"in", "conn">>, {"panel"}), Shows(OnStrip \o <<"eq">>, {"panel"}),
      Shows(OnStrip \o <<"dyn">>, {"panel"}), Shows(<<"fx", Any1>>, {"panel"}),
      Shows(<<"io", "in", Any1, Any1>>, {"panel"}), Shows(<<"io", "out", Any1, Any1>>, {"panel"})>>

InsertRoutes == Both(<<"insert", Any1>>, {"insert"})
BlockRoutes == Both(<<Any1, "on">>, {"block"})
DelayRoutes == Both(<<"delay">>, {"delay"})
ProcessingRoutes ==
    Both(OnChannel \o <<"proc">>, {"proc"}) \o ForStrips(InsertRoutes) \o ForStrips(BlockRoutes)
    \o ForStrips(DelayRoutes)

InputPatchRoutes(strip) ==
    Both(strip \o <<"in", "patch">>, {"patch"})
    \o <<Changes("POST", strip \o <<"in", "set", "altsrc">>, {"patch"}),
         Changes("POST", strip \o <<"in", "set", "srcauto">>, {"patch"})>>
SourceRoutes == Both(<<"io", "in", Any1, Any1, "props">>, {"props"}) \o <<Shows(<<"io">>, {"io groups"})>>
IoRoutes ==
    SourceRoutes \o InputPatchRoutes(OnChannel) \o InputPatchRoutes(OnAux) \o Both(<<"io", "altsw">>, {"altsw"})
    \o <<Shows(<<"link-status">>, {"link"}), Changes("POST", <<"link-status", "clear-errors">>, {"link"})>>
    \o Both(<<"mtx", Any1, "direct-input">>, {"direct input"})
    \o <<Shows(<<"io", "in", Any1, Any1, "routed-channels">>, {"routed"})>>

\* What a run changes comes back in its answer, and over the topics of the mixer.
GainRoutes == <<Runs("POST", OnChannel \o <<"autogain">>), Runs("POST", OnAux \o <<"autogain">>)>>
DynamicsRoutes(run) ==
    <<Runs("POST", OnChannel \o <<"gate", run>>), Runs("POST", OnChannel \o <<"dyn", run>>),
      Runs("POST", OnAux \o <<"dyn", run>>), Runs("POST", OnStrip \o <<"dyn", run>>)>>
AutomationRoutes ==
    GainRoutes \o DynamicsRoutes("auto-compress") \o DynamicsRoutes("auto-gate")
    \o <<Runs("POST", <<"io", "in", Any1, Any1, "autogain">>)>>

AutoEqRoutes ==
    <<Runs("POST", <<"auto-eq-balance">>), Runs("POST", <<"auto-eq-balance", "undo">>),
      Runs("POST", <<"mic-calibrations", "parse">>), Shows(<<"mic-calibrations">>, {"mics"}),
      Shows(<<"mic-calibrations", Any1>>, {"mics"}), Changes("POST", <<"mic-calibrations">>, {"mics"}),
      Changes("DELETE", <<"mic-calibrations", Any1>>, {"mics"})>>

\* Mutant: the parameter is registered before the literal next to it.
SourceBeforeAssign ==
    <<Shows(<<"talkback">>, {"talkback"}), Changes("POST", <<"talkback", Any1>>, {"talkback"}),
      Changes("POST", <<"talkback", "assign">>, {"talkback"}),
      Changes("POST", <<"talkback", Any1, "destination">>, {"talkback"})>>

TalkbackRoutes ==
    <<Shows(<<"talkback">>, {"talkback"}), Changes("POST", <<"talkback", "assign">>, {"talkback"}),
      Changes("POST", <<"talkback", Any1>>, {"talkback"}),
      Changes("POST", <<"talkback", Any1, "destination">>, {"talkback"})>>

ScribbleRoutes == Both(<<"scribble">>, {"scribble"})
AdminRoutes ==
    <<Runs("POST", <<"console", "save-flash">>)>> \o Both(<<"console", "autosave">>, {"autosave"})
    \o Both(<<"selected-strip">>, {"selected"})
ConsoleRoutes ==
    AdminRoutes \o TalkbackRoutes
    \o <<Shows(<<"gpio">>, {"gpio"}), Shows(<<"gpio", Any1>>, {"gpio"}),
         Changes("POST", <<"gpio", Any1, "mode">>, {"gpio"}), Changes("POST", <<"gpio", Any1, "state">>, {"gpio"})>>
    \o Both(<<"lighting">>, {"lighting"}) \o ForStrips(ScribbleRoutes) \o Both(<<"osc-mirror">>, {"mirror"})

\* The page sets a solo and shows it itself (useSolo): it is not read again.
SoloRoutes == <<Shows(<<"solo">>, {"solo"}), Runs("POST", <<"solo">>)>>
MonitoringRoutes ==
    ForStrips(SoloRoutes)
    \o <<Shows(<<"solo-states">>, {"solo"}), Shows(<<"solo-config">>, {"solo config"}),
         Runs("POST", <<"solo-config">>), Shows(<<"monitor-bus", Any1>>, {"monitor"}),
         Runs("POST", <<"monitor-bus", Any1>>)>>

\* The card of the strip shows the answer of its own toggles (GroupsCard).
GroupRoutes(strip) ==
    <<Shows(strip \o <<"groups">>, {"tags"}), Changes("POST", strip \o <<"groups", "toggle">>, {"members"})>>
MembersRoute == <<Shows(<<"group-members">>, {"members"})>>
ValueMemoryRoutes ==
    <<Runs("POST", <<"value-memory", "store">>), Runs("POST", <<"value-memory", "restore">>),
      Runs("POST", <<"value-memory", "adjust">>), Runs("POST", <<"value-memory", "undo">>)>>
WritesRoutes ==
    MembersRoute
    \o FlattenSeq([i \in 1 .. 5 |-> GroupRoutes(<< <<"channels", "aux", "bus", "main", "mtx">>[i], Any1>>)])
    \o ValueMemoryRoutes
    \o <<Runs("POST", <<"fade">>), Runs("POST", <<"fade", "cancel">>),
         Runs("POST", <<"set">>), Runs("POST", <<"bulk-set">>)>>

ScenesPresetsRoutes ==
    <<Shows(<<"scenes">>, {"scenes"}), Changes("POST", <<"scenes", "step">>, {"scenes"}),
      Changes("POST", <<"scenes", "recall">>, {"scenes"}), Shows(<<"presets">>, {"presets"}),
      Shows(<<"presets", Any1>>, {"preset"}), Changes("POST", <<"presets">>, {"presets", "preset"}),
      Runs("POST", <<"presets", Any1, "load">>), Changes("DELETE", <<"presets", Any1>>, {"presets", "preset"})>>

BridgeRoutes ==
    <<Shows(<<"bridge">>, {"bridge"}), Changes("POST", <<"bridge">>, {"bridge", "config"}),
      Changes("PUT", <<"bridge", "safes">>, {"bridge", "config"}),
      Changes("POST", <<"bridge", "safes">>, {"bridge", "config"}),
      Changes("PUT", <<"bridge", "profiles">>, {"bridge", "config"}),
      Changes("POST", <<"bridge", "profiles">>, {"bridge", "config"}),
      Changes("DELETE", <<"bridge", "profiles", Any1>>, {"bridge", "config"})>>

\* registerWingHttpRoutes, module after module.
RouteModules ==
    <<OverviewRoutes, MediaRoutes, MixerRoutes, ParamPanelRoutes, ProcessingRoutes, IoRoutes, AutomationRoutes,
      AutoEqRoutes, ConsoleRoutes, MonitoringRoutes, WritesRoutes, ScenesPresetsRoutes, BridgeRoutes>>

PasskeyRoutes ==
    LET at == <<"api", "auth", "passkeys">>
    IN <<Runs("GET", at \o <<"status">>), Runs("POST", at \o <<"login", "options">>),
         Runs("POST", at \o <<"login", "verify">>), Runs("POST", <<"api", "auth", "logout">>),
         Shows(at, {"passkeys"}), Runs("POST", at \o <<"register", "options">>),
         Changes("POST", at \o <<"register", "verify">>, {"passkeys"}), Changes("DELETE", at \o <<Any1>>, {"passkeys"})>>

\* A new configuration may mean another console: whatever is read from it changes.
WingThings == UNION {UNION {r.of : r \in Range(RouteModules[i])} : i \in DOMAIN RouteModules}
CoreRoutes ==
    <<Runs("GET", <<"health">>), Shows(<<"api", "status">>, {"status"}), Shows(<<"api", "plugins">>, {"plugins"}),
      Shows(<<"api", "plugins", Any1, "config">>, {"config"}),
      Changes("PUT", <<"api", "plugins", Any1, "config">>, {"config"} \cup WingThings),
      Shows(<<"api", "tools">>, {"tools"}), Changes("PUT", <<"api", "tools">>, {"tools"}),
      Runs("GET", <<"api", "auth", "verify">>), Shows(<<"api", "auth", "oauth-clients">>, {"oauth"}),
      Changes("DELETE", <<"api", "auth", "oauth-clients", Any1>>, {"oauth"})>>
    \o PasskeyRoutes \o <<Runs("POST", <<"api", "auth", "ws-ticket">>)>>

Wing == <<"api", "plugins", "wing">>
PluginRoutes == FlattenSeq([i \in DOMAIN RouteModules |->
    [j \in DOMAIN RouteModules[i] |-> [RouteModules[i][j] EXCEPT !.path = Wing \o @]]])

\* Core routes first: the plugin's router is a prefix mount.
Table == CoreRoutes \o PluginRoutes
-----------------------------------------------------------------------------
(* Express: the first route in the table that fits. *)
Fits(pattern, path) ==
    /\ Len(pattern) = Len(path)
    /\ \A i \in DOMAIN path : pattern[i] \in {Any1, path[i]}
Fitting(verb, path) == {i \in DOMAIN Table : Table[i].verb = verb /\ Fits(Table[i].path, path)}
Dispatch(verb, path) == Table[CHOOSE i \in Fitting(verb, path) : \A j \in Fitting(verb, path) : i <= j]

-----------------------------------------------------------------------------
(* The hooks of the pages. A query has the key of its cache entry, the path *)
(* it reads and whether it is polled; a mutation the keys it invalidates    *)
(* when it succeeds, prefixes of those they are meant for, and the keys it  *)
(* writes its answer to. An index or a name is "1".                         *)
Query(key, path, polled) == [key |-> key, path |-> path, polled |-> polled]
Mutation(verb, path, stale, seeds) == [verb |-> verb, path |-> path, stale |-> stale, seeds |-> seeds]
At(path) == Wing \o path
Still(key, path) == Query(key, At(path), FALSE)
Polled(key, path) == Query(key, At(path), TRUE)
Post(path, stale) == Mutation("POST", At(path), stale, {})

AccountQueries ==
    {Query(<<"passkeys">>, <<"api", "auth", "passkeys">>, FALSE),
     Query(<<"oauth-clients">>, <<"api", "auth", "oauth-clients">>, FALSE)}
PasskeyCalls ==
    {Mutation("POST", <<"api", "auth", "passkeys", "register", "verify">>, {<<"passkeys">>}, {}),
     Mutation("DELETE", <<"api", "auth", "passkeys", "1">>, {<<"passkeys">>}, {})}
RevokeOAuthClient == {Mutation("DELETE", <<"api", "auth", "oauth-clients", "1">>, {<<"oauth-clients">>}, {})}

ConfigKey == <<"plugin-config", "wing">>
PluginQueries ==
    {Query(<<"plugins">>, <<"api", "plugins">>, TRUE), Query(<<"status">>, <<"api", "status">>, TRUE),
     Query(ConfigKey, Wing \o <<"config">>, FALSE)}

ConsoleQueries ==
    {Polled(<<"wing-state">>, <<"state">>), Polled(<<"wing-scenes">>, <<"scenes">>),
     Still(<<"wing-mixer-state">>, <<"mixer-state">>)}

SendQueries ==
    {Still(<<"wing-channel-sends", "1">>, <<"channels", "1", "sends">>),
     Still(<<"wing-aux-sends", "1">>, <<"aux", "1", "sends">>),
     Still(<<"wing-bus-sends", "1">>, <<"bus", "1", "sends">>),
     Still(<<"wing-main-sends", "1">>, <<"main", "1", "sends">>)}

GroupKinds == {"channels", "aux", "bus", "main", "mtx"}
GroupQueries ==
    {Still(<<"wing-groups", kind, "1">>, <<kind, "1", "groups">>) : kind \in GroupKinds}
    \cup {Still(<<"wing-group-members">>, <<"group-members">>)}
\* The answer, a strip's groups, is put into the list of all strips' groups.
ToggleGroup ==
    {Mutation("POST", At(<<kind, "1", "groups", "toggle">>), {}, {<<"wing-group-members">>}) : kind \in GroupKinds}

MonitorQueries ==
    {Still(<<"wing-solo-states">>, <<"solo-states">>), Still(<<"wing-solo-config">>, <<"solo-config">>),
     Still(<<"wing-monitor-bus", "1">>, <<"monitor-bus", "1">>)}

RtaSourceQuery == {Still(<<"wing-rta-source">>, <<"rta", "source">>)}
SetRtaSource == {Post(<<"rta", "source">>, {<<"wing-rta-source">>})}

IoQueries ==
    {Still(<<"wing-io-groups">>, <<"io">>), Still(<<"wing-io-in", "1", "1">>, <<"io", "in", "1", "1">>),
     Still(<<"wing-io-out", "1", "1">>, <<"io", "out", "1", "1">>),
     Still(<<"wing-channel-in-conn", "1">>, <<"channels", "1", "in", "conn">>),
     Still(<<"wing-aux-in-conn", "1">>, <<"aux", "1", "in", "conn">>),
     Still(<<"wing-io-routed-channels", "1", "1">>, <<"io", "in", "1", "1", "routed-channels">>)}

PanelQueries ==
    {Still(<<"wing-channel-eq", "1">>, <<"channels", "1", "eq">>),
     Still(<<"wing-channel-gate", "1">>, <<"channels", "1", "gate">>),
     Still(<<"wing-channel-dyn", "1">>, <<"channels", "1", "dyn">>),
     Still(<<"wing-aux-eq", "1">>, <<"aux", "1", "eq">>), Still(<<"wing-aux-dyn", "1">>, <<"aux", "1", "dyn">>)}
StripPanelQueries ==
    {Still(<<"wing-strip-eq", "bus", "1">>, <<"strips", "bus", "1", "eq">>),
     Still(<<"wing-strip-dyn", "bus", "1">>, <<"strips", "bus", "1", "dyn">>), Still(<<"wing-fx", "1">>, <<"fx", "1">>)}

ProcQuery == {Still(<<"wing-channel-proc", "1">>, <<"channels", "1", "proc">>)}
SetChannelProc == {Post(<<"channels", "1", "proc">>, {<<"wing-channel-proc", "1">>})}

StripPaths == {<<"channels", "1">>, <<"aux", "1">>, <<"strips", "bus", "1">>}
InsertKey(strip) == <<"wing-insert">> \o strip \o <<"pre">>
InsertQueries == {Still(InsertKey(strip), strip \o <<"insert", "pre">>) : strip \in StripPaths}
SetInsert == {Post(strip \o <<"insert", "pre">>, {InsertKey(strip)}) : strip \in StripPaths}

DelayKey(strip) == <<"wing-delay">> \o strip
DelayQueries == {Still(DelayKey(strip), strip \o <<"delay">>) : strip \in StripPaths}
SetDelay == {Post(strip \o <<"delay">>, {DelayKey(strip)}) : strip \in StripPaths}

DirectInputQuery == {Still(<<"wing-matrix-direct-input", "1">>, <<"mtx", "1", "direct-input">>)}
SetMatrixDirectInput == {Post(<<"mtx", "1", "direct-input">>, {<<"wing-matrix-direct-input", "1">>})}

PatchStrips == {<<"channels", "1">>, <<"aux", "1">>}
PatchKey(strip) == <<"wing-input-patch">> \o strip
InputPatchQueries == {Still(PatchKey(strip), strip \o <<"in", "patch">>) : strip \in PatchStrips}
SetInputPatch ==
    {Post(strip \o <<"in">> \o tail, {PatchKey(strip)}) :
        strip \in PatchStrips, tail \in {<<"patch">>, <<"set", "altsrc">>, <<"set", "srcauto">>}}

MediaQuery == {Polled(<<"wing-media">>, <<"media">>)}
MediaActions == {Post(<<"media", "play">>, {<<"wing-media">>}), Post(<<"media", "rec">>, {<<"wing-media">>})}

\* Read again at once and 750 ms later, when the console has switched.
SceneActions == {Post(<<"scenes", "recall">>, {<<"wing-scenes">>}), Post(<<"scenes", "step">>, {<<"wing-scenes">>})}

PresetQueries == {Still(<<"wing-presets">>, <<"presets">>)}
\* Mutant: a deleted preset stays in the list.
DeleteForgetsTheList ==
    {Post(<<"presets">>, {<<"wing-presets">>}), Mutation("DELETE", At(<<"presets", "1">>), {}, {})}
PresetActions ==
    {Post(<<"presets">>, {<<"wing-presets">>}), Mutation("DELETE", At(<<"presets", "1">>), {<<"wing-presets">>}, {})}

LinkQuery == {Polled(<<"wing-link-status">>, <<"link-status">>)}
ClearLinkErrors == {Post(<<"link-status", "clear-errors">>, {<<"wing-link-status">>})}

MicQueries ==
    {Still(<<"wing-mic-calibrations">>, <<"mic-calibrations">>),
     Still(<<"wing-mic-calibration", "1">>, <<"mic-calibrations", "1">>)}
\* The second is the prefix of the key of every microphone.
MicKeys == {<<"wing-mic-calibrations">>, <<"wing-mic-calibration">>}
MicActions ==
    {Post(<<"mic-calibrations">>, MicKeys), Mutation("DELETE", At(<<"mic-calibrations", "1">>), MicKeys, {})}

ToolsQuery == {Query(<<"tools">>, <<"api", "tools">>, FALSE)}
UpdateToolVisibility == {Mutation("PUT", <<"api", "tools">>, {}, {<<"tools">>})}

BridgeQuery == {Polled(<<"wing-bridge">>, <<"bridge">>)}
BridgeActions ==
    {Mutation(c[1], At(c[2]), {ConfigKey}, {<<"wing-bridge">>}) :
        c \in {<<"POST", <<"bridge">>>>, <<"POST", <<"bridge", "profiles">>>>,
               <<"DELETE", <<"bridge", "profiles", "1">>>>, <<"POST", <<"bridge", "safes">>>>}}

WingQueries ==
    ConsoleQueries \cup SendQueries \cup GroupQueries \cup MonitorQueries \cup RtaSourceQuery \cup IoQueries
    \cup PanelQueries \cup StripPanelQueries \cup ProcQuery \cup InsertQueries \cup DelayQueries \cup DirectInputQuery
    \cup InputPatchQueries \cup MediaQuery \cup PresetQueries \cup LinkQuery \cup MicQueries \cup BridgeQuery
Queries == AccountQueries \cup PluginQueries \cup ToolsQuery \cup WingQueries

\* Every key that begins with the plugin's name.
UpdateConfig == {Mutation("PUT", Wing \o <<"config">>, {ConfigKey} \cup {<<Head(q.key)>> : q \in WingQueries}, {})}

Mutations ==
    PasskeyCalls \cup RevokeOAuthClient \cup UpdateConfig \cup ToggleGroup \cup SetRtaSource \cup SetChannelProc
    \cup SetInsert \cup SetDelay \cup SetMatrixDirectInput \cup SetInputPatch \cup MediaActions \cup SceneActions
    \cup PresetActions \cup ClearLinkErrors \cup MicActions \cup UpdateToolVisibility \cup BridgeActions
-----------------------------------------------------------------------------
(* One query of a page and one mutation of what it shows. TanStack Query    *)
(* keeps one read under way per query. Invalidating a query reads it again, *)
(* in place of a read under way, unless that is its first: then the first   *)
(* goes on. Writing an answer to an entry leaves a read under way alone.    *)

\* The strip a path is about.
StripWords == {"channels", "aux", "bus", "main", "mtx"}
StripOf(path) ==
    CASE Len(path) > 4 /\ path[4] \in StripWords -> SubSeq(path, 4, 5)
      [] Len(path) > 5 /\ path[4] = "strips" -> SubSeq(path, 4, 6)
      [] OTHER -> << >>

\* The mutation changes what the query shows.
Concerns(m, q) ==
    /\ Dispatch(m.verb, m.path).of \cap Dispatch("GET", q.path).of # {}
    /\ StripOf(m.path) = StripOf(q.path) \/ << >> \in {StripOf(m.path), StripOf(q.path)}

\* A page's read after an invalidation owes it to the caller to be newer; an
\* answer written to the cache may be overtaken by a read under way.
Owed(m, q) == Concerns(m, q) /\ (q.key \notin m.seeds \/ q.polled)

VARIABLES
    query, hook,    \* which of the pairs
    held,           \* how often what the query shows has changed at the server
    shown,          \* the change the cache entry is from, NotRead before the first read
    failed,         \* the last read failed: the page says so
    fetching,       \* the read under way
    call,           \* the mutation under way
    owes,           \* what the page must come to show
    down,           \* the page has seen the console unreachable
    own, others, outages, lost

apiVars == <<query, hook, held, shown, failed, fetching, call, owes, down, own, others, outages, lost>>

NotRead == -1
NoFetch == [st |-> "none"]
Asked == [st |-> "asked"]
Pairs == {p \in Queries \X Mutations : Concerns(p[2], p[1])}

ApiInit ==
    /\ \E p \in Pairs : query = p[1] /\ hook = p[2]
    /\ held = 0 /\ shown = NotRead /\ failed = FALSE /\ fetching = NoFetch
    /\ call = "none" /\ owes = NotRead /\ down = FALSE
    /\ own = 0 /\ others = 0 /\ outages = 0 /\ lost = 0

ApiType ==
    /\ <<query, hook>> \in Pairs
    /\ shown \in {NotRead} \cup 0 .. held /\ owes \in {NotRead} \cup 0 .. held
    /\ fetching \in {NoFetch, Asked} \cup [st : {"read"}, at : 0 .. held]
    /\ call \in {"none", "sent", "landed"}

\* A page with the query is opened, again after a first read that failed.
OpenPage ==
    /\ shown = NotRead /\ fetching = NoFetch
    /\ fetching' = Asked
    /\ UNCHANGED <<query, hook, held, shown, failed, call, owes, down, own, others, outages, lost>>

\* The route's handler reads what it answers.
ServeGet ==
    /\ fetching = Asked
    /\ fetching' = [st |-> "read", at |-> held]
    /\ UNCHANGED <<query, hook, held, shown, failed, call, owes, down, own, others, outages, lost>>

GetAnswered ==
    /\ fetching.st = "read"
    /\ shown' = fetching.at /\ failed' = FALSE /\ fetching' = NoFetch
    /\ UNCHANGED <<query, hook, held, call, owes, down, own, others, outages, lost>>

\* A 502, or no answer: retries are part of the read.
GetFails ==
    /\ fetching # NoFetch /\ lost < MaxLostGets
    /\ failed' = TRUE /\ fetching' = NoFetch /\ lost' = lost + 1
    /\ UNCHANGED <<query, hook, held, shown, call, owes, down, own, others, outages>>

\* The interval of a polled query, which joins a read under way.
Poll ==
    /\ query.polled /\ fetching = NoFetch /\ (shown # NotRead \/ failed)
    /\ fetching' = Asked
    /\ UNCHANGED <<query, hook, held, shown, failed, call, owes, down, own, others, outages, lost>>

\* invalidateQueries, of a query a page is showing.
ReadAgain ==
    fetching' = IF shown = NotRead /\ (fetching # NoFetch \/ ~failed) THEN fetching ELSE Asked

CallHook ==
    /\ call = "none" /\ own < MaxOwn
    /\ call' = "sent" /\ own' = own + 1
    /\ UNCHANGED <<query, hook, held, shown, failed, fetching, owes, down, others, outages, lost>>

Land ==
    /\ call = "sent"
    /\ held' = held + 1 /\ call' = "landed"
    /\ UNCHANGED <<query, hook, shown, failed, fetching, owes, down, own, others, outages, lost>>

\* Refused, or the answer was an error though it landed: nothing is read again.
HookFails ==
    /\ call # "none"
    /\ call' = "none"
    /\ UNCHANGED <<query, hook, held, shown, failed, fetching, owes, down, own, others, outages, lost>>

\* onSuccess.
OnSuccess ==
    IF \E prefix \in hook.stale : IsPrefix(prefix, query.key) THEN ReadAgain ELSE UNCHANGED fetching

HookSucceeds ==
    /\ call = "landed"
    /\ call' = "none"
    /\ OnSuccess
    /\ shown' = IF query.key \in hook.seeds /\ shown # NotRead THEN held ELSE shown
    /\ owes' = IF Owed(hook, query) /\ shown # NotRead THEN held ELSE owes
    /\ UNCHANGED <<query, hook, held, failed, down, own, others, outages, lost>>

SomebodyElse ==
    /\ others < MaxOthers
    /\ held' = held + 1 /\ others' = others + 1
    /\ UNCHANGED <<query, hook, shown, failed, fetching, call, owes, down, own, outages, lost>>

\* useReloadWhenConsoleReturns: everything is read again.
ConsoleGoes ==
    /\ ~down /\ outages < MaxOutages
    /\ down' = TRUE /\ outages' = outages + 1
    /\ UNCHANGED <<query, hook, held, shown, failed, fetching, call, owes, own, others, lost>>

ConsoleReturns ==
    /\ down
    /\ down' = FALSE
    /\ ReadAgain
    /\ owes' = IF shown # NotRead THEN held ELSE owes
    /\ UNCHANGED <<query, hook, held, shown, failed, call, own, others, outages, lost>>

ApiNext ==
    OpenPage \/ ServeGet \/ GetAnswered \/ GetFails \/ Poll \/ CallHook \/ Land \/ HookFails \/ HookSucceeds
    \/ SomebodyElse \/ ConsoleGoes \/ ConsoleReturns

\* A handler answers, and an answer arrives, or the read has failed; the interval
\* of a polled query goes on.
ApiFairness == WF_apiVars(ServeGet) /\ WF_apiVars(GetAnswered) /\ WF_apiVars(Poll)
-----------------------------------------------------------------------------
Value(path) == [i \in DOMAIN path |-> IF path[i] = Any1 THEN "1" ELSE path[i]]
Overlap(r, s) ==
    /\ r.verb = s.verb /\ Len(r.path) = Len(s.path)
    /\ \A i \in DOMAIN r.path : r.path[i] = s.path[i] \/ Any1 \in {r.path[i], s.path[i]}
EveryRouteIsReached ==
    /\ \A i \in DOMAIN Table : Dispatch(Table[i].verb, Value(Table[i].path)) = Table[i]
    /\ \A i, j \in DOMAIN RouteModules : i # j =>
        ~\E r \in Range(RouteModules[i]), s \in Range(RouteModules[j]) : Overlap(r, s)
EveryCallIsMeant ==
    /\ \A q \in Queries : Fitting("GET", q.path) # {} /\ Dispatch("GET", q.path).does = "shows"
    /\ \A m \in Mutations : Fitting(m.verb, m.path) # {} /\ Dispatch(m.verb, m.path).does = "changes"

\* Every route answers what it was registered for: no route before it, and no core
\* route, takes its requests ("Core routes must be registered before the per-plugin
\* router mount"); "only routes inside one module overlap" (http-routes/index.ts);
\* and what the dashboard reads is a route that shows, what it changes one that
\* changes, and the page followed makes no other calls. A parameter has a value no
\* other route names.
CallsFindTheirRoutes == EveryRouteIsReached /\ EveryCallIsMeant /\ query \in Queries /\ hook \in Mutations

\* A page that had read something comes to show its own change of it once that has
\* been answered, and what others changed while the console was away once it is
\* back, and from then on nothing older; or it says that it could not read. (What
\* is owed only grows, and is bounded: it comes to rest.)
PagesCatchUp == <>[](shown >= owes \/ failed)
=============================================================================
