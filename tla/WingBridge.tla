----------------------------- MODULE WingBridge -----------------------------
(***************************************************************************)
(* What a bridged tablet may write (wing-bridge.ts, wing-bridge-safes.ts,  *)
(* wing-bridge-identity.ts): the safe strips or the allowed ones, globally *)
(* and per device, turned into rules on paths, and kept in step with what  *)
(* the rules depend on at the desk: the input a safe strip is patched from *)
(* and the effect inserted in a bus the device may mix.  Both are read     *)
(* from the state cache or the console, leaf by leaf, and read again when  *)
(* the console pushes a change.  A path is the sequence of its segments as *)
(* normalizeBridgePath() leaves them; of a strip's two input slots the     *)
(* main one stands for both, and of a bus's two inserts one.                *)
(***************************************************************************)
EXTENDS Naturals, Sequences, FiniteSets, SequencesExt

CONSTANTS
    None,
    AllSettings, \* [safes, whitelist, scope, profile, listed, applyGlobal] that may be configured
    Inputs,      \* channels and auxes, <<kind, index>>, whose patch may matter
    Mixes,       \* buses, mains and matrices whose insert may matter
    Apps, Owner, \* tablets; the one the profile is for
    Groups, Numbers, \* where an input may be patched from: physical group and index
    Slots,       \* effect slots, which an insert may hold, or "none"
    Paths,       \* paths a tablet may write
    MaxDeskChanges   \* bound: changes at the desk, of settings and of the console connection

ASSUME WingBridgeAssumption ==
    /\ MaxDeskChanges \in Nat /\ Owner \in Apps
    /\ None \notin Groups \cup Numbers \cup Slots \cup {"none"} /\ Groups # {} /\ Numbers # {}
    /\ IsFiniteSet(Inputs) /\ IsFiniteSet(Mixes)
    /\ \A s \in AllSettings : s.scope \in {"mix", "full"} /\ s.profile \in {"none", "safes", "allow"}

VARIABLES
    settings,
    desk,       \* per leaf the rules depend on: what the console has
    cache,      \* per leaf: the plugin's state cache, or None
    attached,   \* the OSC client is connected
    pushes,     \* leaves whose change the console pushes: [leaf, value]
    resolvers,  \* resolveSources() and resolveInserts() under way: [kind, gen, todo, got]
    gens,       \* resolveGeneration, insertGeneration
    rules,      \* the arguments of the last rebuildRules(): [set, sources, inserts]
    known,      \* per app: its identity, "new", "looking" or "known"
    untold,     \* history: leaves changed unheard, that no finished lookup has seen since
    deskChanges

bridgeVars == <<settings, desk, cache, attached, pushes, resolvers, gens, rules, known, untold, deskChanges>>

Kinds == {"sources", "inserts"}
Leaves == (Inputs \X {"grp", "in"}) \cup (Mixes \X {"ins"})
ValuesOf(l) == CASE l[2] = "grp" -> Groups [] l[2] = "in" -> Numbers [] OTHER -> Slots \cup {"none"}

-----------------------------------------------------------------------------
(* Rules. *)

(* A pattern tests each segment against a set of names, or takes any.      *)
AnyIndex == {"*"}
Fits(test, segment) == test = AnyIndex \/ segment \in test

(* matchRule(): a path on or below the pattern, save what it excepts, and  *)
(* every branch above it.                                                  *)
MatchRule(r, p) ==
    LET n == Len(r.at)
    IN /\ \A i \in 1..Len(p) : i <= n => Fits(r.at[i], p[i])
       /\ Len(p) <= n \/ p[n + 1] \notin r.except

(* Sends belong to their destination. *)
Outgoing(kind) == IF kind \in {"ch", "aux", "bus"} THEN {"send", "main"} ELSE IF kind = "dca" THEN {} ELSE {"send"}
Incoming(kind, n) ==
    CASE kind = "bus"  -> {<<{"ch", "aux", "bus"}, AnyIndex, {"send"}, {n}>>}
      [] kind = "main" -> {<<{"ch", "aux", "bus"}, AnyIndex, {"main"}, {n}>>}
      [] kind = "mtx"  -> {<<{"ch", "aux", "bus", "main"}, AnyIndex, {"send"}, {"mx" \o n}>>}
      [] OTHER -> {}

(* pairOf(): a stereo source is addressed by either half. *)
Digits == <<"1", "2", "3", "4", "5", "6", "7", "8">>
PairOf(n) == LET i == CHOOSE j \in DOMAIN Digits : Digits[j] = n IN Digits[IF i % 2 = 1 THEN i + 1 ELSE i - 1]
SourceRules(sources, s) ==
    IF sources[s] = None THEN {[at |-> <<{"io"}, {"in"}>>, except |-> {}]}
    ELSE {[at |-> <<{"io"}, {"in"}, {src[1]}, {src[2], PairOf(src[2])}>>, except |-> {}] : src \in sources[s]}

(* buildSafeRules() *)
BuildSafeRules(safes, sources) ==
    LET strips == {[at |-> <<{s[1]}, {s[2]}>>, except |-> Outgoing(s[1])] : s \in safes}
        into == UNION {{[at |-> a, except |-> {}] : a \in Incoming(s[1], s[2])} : s \in safes}
        inputs == UNION {SourceRules(sources, s) : s \in safes \cap Inputs}
        global == {[at |-> <<{"ctl"}, {"lib"}>>, except |-> {}], [at |-> <<{"cfg"}>>, except |-> {"rta"}]}
    IN IF safes = {} THEN {} ELSE strips \cup into \cup inputs \cup global
SafesRefuse(safes, sources, p) == p # <<>> /\ \E r \in BuildSafeRules(safes, sources) : MatchRule(r, p)

(* allowRules(), allowedBy(): what an allow-list grants. *)
StripMixLeaves(kind) == IF kind = "dca" THEN {"fdr", "mute"} ELSE {"fdr", "mute", "pan"}
SendMixLeaves == {"lvl", "on", "pan", "mode", "plink", "pon"}
Below(at, p) == Len(p) > Len(at) /\ \A i \in 1..Len(at) : Fits(at[i], p[i])
Rest(at, p) == SubSeq(p, Len(at) + 1, Len(p))
DenyOwnMix(rest) == rest[1] \in {"send", "main"} \/ (rest[1] \in {"preins", "postins"} /\ Len(rest) > 1 /\ rest[2] = "ins")
GrantsStrip(s, scope, inserts, p) ==
    LET own == <<{s[1]}, {s[2]}>>
        fx(slot) == <<{"fx"}, {slot}>>
    IN IF scope = "full" THEN Below(own, p)
       ELSE IF s \notin Mixes THEN Below(own, p) /\ Len(p) = 3 /\ p[3] \in StripMixLeaves(s[1])
       ELSE \/ Below(own, p) /\ ~DenyOwnMix(Rest(own, p))
            \/ \E slot \in IF inserts[s] = None THEN {} ELSE inserts[s] : Below(fx(slot), p) /\ p[3] # "mdl"
GrantsIncoming(s, scope, p) ==
    \E at \in Incoming(s[1], s[2]) :
        Below(at, p) /\ (scope = "full" \/ (Len(p) = Len(at) + 1 /\ p[Len(p)] \in SendMixLeaves))
ListGrants(listed, scope, inserts, p) ==
    \E s \in listed : GrantsStrip(s, scope, inserts, p) \/ GrantsIncoming(s, scope, p)

(* buildGlobalPolicy(), buildClientPolicy(): refusalFor() of each. *)
GlobalRefuses(r, p) ==
    IF r.set.whitelist THEN ~ListGrants(r.set.safes, r.set.scope, r.inserts, p) ELSE SafesRefuse(r.set.safes, r.sources, p)
ProfileRefuses(r, p) ==
    IF r.set.profile = "safes" THEN GlobalRefuses(r, p) \/ SafesRefuse(r.set.listed, r.sources, p)
    ELSE (r.set.applyGlobal /\ GlobalRefuses(r, p)) \/ ~ListGrants(r.set.listed, r.set.scope, r.inserts, p)
Refuses(r, a, p) == IF r.set.profile # "none" /\ a = Owner THEN ProfileRefuses(r, p) ELSE GlobalRefuses(r, p)

-----------------------------------------------------------------------------
(* What the rules depend on. *)

(* safeStrips(), mixStrips() *)
SafeStrips(set) == ((IF set.whitelist THEN {} ELSE set.safes) \cup (IF set.profile = "safes" THEN set.listed ELSE {})) \cap Inputs
MixStrips(set) ==
    IF set.scope # "mix" THEN {}
    ELSE ((IF set.whitelist THEN set.safes ELSE {}) \cup (IF set.profile = "allow" THEN set.listed ELSE {})) \cap Mixes

(* The leaves a lookup reads, in its order. *)
Wanted(kind, set) ==
    LET strips == SetToSeq(SafeStrips(set))
    IN IF kind = "sources"
       THEN [i \in 1..(2 * Cardinality(SafeStrips(set))) |-> <<strips[(i + 1) \div 2], IF i % 2 = 1 THEN "grp" ELSE "in">>]
       ELSE SetToSeq(MixStrips(set) \X {"ins"})
Started(kinds, set) ==
    /\ gens' = [k \in Kinds |-> IF k \in kinds THEN gens[k] + 1 ELSE gens[k]]
    /\ resolvers' = resolvers \cup {[kind |-> k, gen |-> gens[k] + 1, todo |-> Wanted(k, set), got |-> <<>>] : k \in kinds}

(* From the leaves read to what a lookup answers. *)
SourcesOf(value) ==
    [s \in Inputs |->
        IF \E l \in {<<s, "grp">>, <<s, "in">>} : l \notin DOMAIN value \/ value[l] = None THEN None
        ELSE IF value[<<s, "grp">>] = "OFF" THEN {} ELSE {<<value[<<s, "grp">>], value[<<s, "in">>]>>}]
InsertsOf(value) ==
    [s \in Mixes |-> IF <<s, "ins">> \notin DOMAIN value \/ value[<<s, "ins">>] = None THEN None
                     ELSE {value[<<s, "ins">>]} \ {"none"}]

(* readSources(), or an insert: the next leaf, from the cache or the       *)
(* console; a read that fails, or no connection, leaves it unknown.        *)
ReadLeaf(r) ==
    /\ r.todo # <<>>
    /\ LET l == Head(r.todo)
       IN \E v \in IF cache[l] # None THEN {cache[l]} ELSE IF attached THEN {desk[l], None} ELSE {None} :
             resolvers' = (resolvers \ {r}) \cup {[kind |-> r.kind, gen |-> r.gen, todo |-> Tail(r.todo),
                                                           got |-> [m \in DOMAIN r.got \cup {l} |-> IF m = l THEN v ELSE r.got[m]]]}
    /\ UNCHANGED <<settings, desk, cache, attached, pushes, gens, rules, known, untold, deskChanges>>

(* Mutant: the last lookup to end wins, not the last to start. *)
ByWhoEndsLast(r) == TRUE

(* A lookup that a later one has overtaken leaves the rules alone. *)
StillCurrent(r) == r.gen = gens[r.kind]

(* The end of resolveSources() and resolveInserts(): the rules are built   *)
(* anew with what was read.                                                *)
LookupEnds(r) ==
    /\ r.todo = <<>> /\ resolvers' = resolvers \ {r}
    /\ IF StillCurrent(r)
       THEN /\ rules' = IF r.kind = "sources" THEN [rules EXCEPT !.set = settings, !.sources = SourcesOf(r.got)]
                        ELSE [rules EXCEPT !.set = settings, !.inserts = InsertsOf(r.got)]
            /\ untold' = untold \ {l \in DOMAIN r.got : r.got[l] = desk[l]}
       ELSE UNCHANGED <<rules, untold>>
    /\ UNCHANGED <<settings, desk, cache, attached, pushes, gens, known, deskChanges>>

(* configure(), as far as the rules go: built at once, with what is known. *)
Configure(s) ==
    /\ s # settings /\ deskChanges < MaxDeskChanges /\ deskChanges' = deskChanges + 1
    /\ settings' = s /\ rules' = [rules EXCEPT !.set = s] /\ Started(Kinds, s)
    /\ UNCHANGED <<desk, cache, attached, pushes, known, untold>>

(* A hand at the desk: pushed while the connection holds. *)
HandChanges(l, v) ==
    /\ v # desk[l] /\ deskChanges < MaxDeskChanges /\ deskChanges' = deskChanges + 1
    /\ desk' = [desk EXCEPT ![l] = v]
    /\ IF attached THEN pushes' = Append(pushes, [leaf |-> l, value |-> v]) /\ UNCHANGED untold
       ELSE untold' = untold \cup {l} /\ UNCHANGED pushes
    /\ UNCHANGED <<settings, cache, attached, resolvers, gens, rules, known>>

(* onParamChange(), of the plugin and of the bridge. *)
PushArrives ==
    /\ pushes # <<>> /\ pushes' = Tail(pushes)
    /\ LET m == Head(pushes)
       IN /\ cache' = [cache EXCEPT ![m.leaf] = m.value]
          /\ Started((IF m.leaf[1] \in SafeStrips(settings) THEN {"sources"} ELSE {})
                       \cup (IF m.leaf[1] \in MixStrips(settings) THEN {"inserts"} ELSE {}), settings)
    /\ UNCHANGED <<settings, desk, attached, rules, known, untold, deskChanges>>

(* The subscription lapsed, or the console was away: what it pushed is     *)
(* lost and the plugin drops its cache; the bridge is not told.            *)
SubscriptionGap ==
    /\ attached /\ deskChanges < MaxDeskChanges /\ deskChanges' = deskChanges + 1
    /\ untold' = untold \cup {pushes[i].leaf : i \in DOMAIN pushes}
    /\ pushes' = <<>> /\ cache' = [l \in Leaves |-> None]
    /\ UNCHANGED <<settings, desk, attached, resolvers, gens, rules, known>>

(* attachClient(): the console is connected to anew. *)
Detach ==
    /\ attached /\ deskChanges < MaxDeskChanges /\ deskChanges' = deskChanges + 1
    /\ attached' = FALSE /\ cache' = [l \in Leaves |-> None] /\ pushes' = <<>>
    /\ untold' = untold \cup {pushes[i].leaf : i \in DOMAIN pushes}
    /\ UNCHANGED <<settings, desk, resolvers, gens, rules, known>>
Attach ==
    /\ ~attached /\ attached' = TRUE /\ Started(Kinds, settings)
    /\ UNCHANGED <<settings, desk, cache, pushes, rules, known, untold, deskChanges>>

-----------------------------------------------------------------------------
(* Writes of the apps. *)

(* Everything the desk told has reached the rules. *)
Followed == pushes = <<>> /\ ~\E r \in resolvers : r.gen = gens[r.kind]
Truth == [set |-> settings, sources |-> SourcesOf(desk), inserts |-> InsertsOf(desk)]

(* policyFor(), identify(): refused until the device is known, when a      *)
(* profile needs its MAC address to tell.                                  *)
PolicyLets(a, p) == (settings.profile = "none" \/ known[a] = "known") /\ ~Refuses(rules, a, p)

(* A write of the app: what it may do is for the invariants to say; the    *)
(* first one has its device looked up.                                     *)
Write(a) ==
    /\ known[a] = "new" /\ settings.profile # "none" /\ known' = [known EXCEPT ![a] = "looking"]
    /\ UNCHANGED <<settings, desk, cache, attached, pushes, resolvers, gens, rules, untold, deskChanges>>

(* The ARP table answers. *)
Identified(a) ==
    /\ known[a] = "looking" /\ known' = [known EXCEPT ![a] = "known"]
    /\ UNCHANGED <<settings, desk, cache, attached, pushes, resolvers, gens, rules, untold, deskChanges>>

BridgeInit ==
    /\ settings \in AllSettings
    /\ desk = [l \in Leaves |-> CHOOSE v \in ValuesOf(l) : TRUE]
    /\ cache = [l \in Leaves |-> None] /\ attached = FALSE /\ pushes = <<>>
    /\ resolvers = {} /\ gens = [k \in Kinds |-> 0]
    /\ rules = [set |-> settings, sources |-> [s \in Inputs |-> None], inserts |-> [s \in Mixes |-> None]]
    /\ known = [a \in Apps |-> "new"] /\ untold = {} /\ deskChanges = 0

BridgeNext ==
    \/ PushArrives \/ SubscriptionGap \/ Detach \/ Attach
    \/ \E s \in AllSettings : Configure(s)
    \/ \E l \in Leaves : \E v \in ValuesOf(l) : HandChanges(l, v)
    \/ \E r \in resolvers : LookupEnds(r) \/ ReadLeaf(r)
    \/ \E a \in Apps : Identified(a) \/ Write(a)

BridgeSpec == BridgeInit /\ [][BridgeNext]_bridgeVars

LetsOnlyWhatItShould == \A a \in Apps, p \in Paths : PolicyLets(a, p) => ~Refuses(Truth, a, p)

(* No app changes what is protected from it, whatever was re-patched,      *)
(* inserted or reconfigured while the rules were being made: once all the  *)
(* desk pushed has been followed, and unless something changed there that  *)
(* it did not push.                                                        *)
NothingProtectedIsWritten ==
    Followed /\ untold \cap (Range(Wanted("sources", settings)) \cup Range(Wanted("inserts", settings))) = {}
        => LetsOnlyWhatItShould

(* The same said of everything that is inserted or patched, pushed or not: *)
(* "the bridge follows the slot inserted, live; while it is unknown, no FX *)
(* is writable" (docs/bridge.md).                                          *)
FollowsWhatIsInserted == Followed /\ attached => LetsOnlyWhatItShould
=============================================================================
