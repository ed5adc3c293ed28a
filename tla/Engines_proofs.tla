--------------------------- MODULE Engines_proofs ---------------------------
(***************************************************************************)
(* Proofs about the operations that work at the console: the calls of the  *)
(* tools under show mode (ToolCalls), fades (Fades), the operations of     *)
(* many calls (ConsoleJobs) and the automatic EQ (AutoEq).                 *)
(***************************************************************************)
EXTENDS AutoEq, ConsoleJobs, Fades, ToolCalls, SequenceTheorems, TLAPS

-----------------------------------------------------------------------------
(* The calls of the tools. *)

Soft == Looks \cup {Surface}

(* What show mode lets a tool do that it does not ask to confirm: nothing   *)
(* at the console, what the handler checks itself, or what is not heard.    *)
Spared(t) ==
    \/ t.does \in {"reads", "keeps", "verifies", "moves", "restores"}
    \/ t.does \in {"sets", "commands", "steers"} /\ t.keys \subseteq Soft

Spares(S) == \A t \in S : AsksToConfirm(t) \/ Spared(t)

LEMMA ToolsAreSpared == Spares(AllTools)
<1>1. Spares(ChannelTools) /\ Spares(BusMainMatrixTools) /\ Spares(DcaMutegroupTools) /\
     Spares(GenericTools) /\ Spares(JournalTools) /\ Spares(UserSignalTools)
  BY DEF ChannelTools, BusMainMatrixTools, DcaMutegroupTools, GenericTools, JournalTools,
     UserSignalTools,
     Spares, Spared, Reading, Tools, AsksToConfirm, ReadOnly, ShowModeExempt, CheckedPerKey,
     Inaudible, Soft, Looks, Sound, Surface
<1>2. Spares(IdentityTools) /\ Spares(BoxMapTools) /\ Spares(TransferTools) /\ Spares(GroupTools) /\
     Spares(RoutingTools) /\ Spares(SceneTools)
  BY DEF IdentityTools, BoxMapTools, TransferTools, GroupTools, RoutingTools, SceneTools,
     Spares, Spared, Reading, Tools, AsksToConfirm, ReadOnly, ShowModeExempt, CheckedPerKey,
     Inaudible, Soft, Looks, Sound, Surface
<1>3. Spares(NameListTools) /\ Spares(FadeTools) /\ Spares(AutoGainTools) /\ Spares(AutoCompressTools)
     /\ Spares(AutoGateTools) /\ Spares(AutoEqTools)
  BY DEF NameListTools, FadeTools, AutoGainTools, AutoCompressTools, AutoGateTools, AutoEqTools,
     Spares, Spared, Reading, Tools, AsksToConfirm, ReadOnly, ShowModeExempt, CheckedPerKey,
     Inaudible, Soft, Looks, Sound, Surface
<1>4. Spares(ValueMemoryTools) /\ Spares(CalibrationTools) /\ Spares(DynamicsStatusTools) /\
     Spares(MeterStatsTools) /\ Spares(PluginCatalogTools) /\ Spares(RtaTools)
  BY DEF ValueMemoryTools, CalibrationTools, DynamicsStatusTools, MeterStatsTools, PluginCatalogTools,
     RtaTools,
     Spares, Spared, Reading, Tools, AsksToConfirm, ReadOnly, ShowModeExempt, CheckedPerKey,
     Inaudible, Soft, Looks, Sound, Surface
<1>5. Spares(InsertTools) /\ Spares(BlockTools) /\ Spares(ProcOrderTools) /\ Spares(DelayTools) /\
     Spares(InputPatchTools) /\ Spares(SourceTools)
  BY DEF InsertTools, BlockTools, ProcOrderTools, DelayTools, InputPatchTools, SourceTools,
     Spares, Spared, Reading, Tools, AsksToConfirm, ReadOnly, ShowModeExempt, CheckedPerKey,
     Inaudible, Soft, Looks, Sound, Surface
<1>6. Spares(MatrixDirectTools) /\ Spares(LinkStatusTools) /\ Spares(TalkbackTools) /\
     Spares(GpioTools) /\ Spares(OscMirrorTools) /\ Spares(BridgeTools)
  BY DEF MatrixDirectTools, LinkStatusTools, TalkbackTools, GpioTools, OscMirrorTools, BridgeTools,
     Spares, Spared, Reading, Tools, AsksToConfirm, ReadOnly, ShowModeExempt, CheckedPerKey,
     Inaudible, Soft, Looks, Sound, Surface
<1>7. Spares(PresetTools) /\ Spares(SaveFlashTools) /\ Spares(ScribbleTools) /\ Spares(LightingTools)
     /\ Spares(SelectedStripTools) /\ Spares(SoloMonitorTools)
  BY DEF PresetTools, SaveFlashTools, ScribbleTools, LightingTools, SelectedStripTools, SoloMonitorTools,
     Spares, Spared, Reading, Tools, AsksToConfirm, ReadOnly, ShowModeExempt, CheckedPerKey,
     Inaudible, Soft, Looks, Sound, Surface
<1>8. Spares(UsbPlayerTools) /\ Spares(WingLiveTools)
  BY DEF UsbPlayerTools, WingLiveTools,
     Spares, Spared, Reading, Tools, AsksToConfirm, ReadOnly, ShowModeExempt, CheckedPerKey,
     Inaudible, Soft, Looks, Sound, Surface
<1>9. QED
  BY <1>1, <1>2, <1>3, <1>4, <1>5, <1>6, <1>7, <1>8 DEF AllTools, Spares

WithinLeaves(S) == \A t \in S : t.keys \subseteq ToolLeaves

LEMMA KeysAreLeaves == WithinLeaves(AllTools)
<1>1. /\ WithinLeaves(ChannelTools) /\ WithinLeaves(BusMainMatrixTools) /\ WithinLeaves(DcaMutegroupTools)
      /\ WithinLeaves(GenericTools) /\ WithinLeaves(JournalTools) /\ WithinLeaves(UserSignalTools)
  <2>1. WithinLeaves(GenericTools)
    BY DEF GenericTools, WithinLeaves, Reading, Tools
  <2>2. WithinLeaves(JournalTools)
    BY ListedAssumption DEF JournalTools, WithinLeaves, Reading, Tools
  <2>3. /\ WithinLeaves(ChannelTools) /\ WithinLeaves(BusMainMatrixTools) /\ WithinLeaves(DcaMutegroupTools)
        /\ WithinLeaves(UserSignalTools)
    BY DEF ChannelTools, BusMainMatrixTools, DcaMutegroupTools, UserSignalTools,
       WithinLeaves, Reading, Tools, ToolLeaves, Looks, Sound, Surface
  <2>4. QED
    BY <2>1, <2>2, <2>3
<1>2. WithinLeaves(IdentityTools) /\ WithinLeaves(BoxMapTools) /\ WithinLeaves(TransferTools) /\
     WithinLeaves(GroupTools) /\ WithinLeaves(RoutingTools) /\ WithinLeaves(SceneTools)
  BY DEF IdentityTools, BoxMapTools, TransferTools, GroupTools, RoutingTools, SceneTools,
     WithinLeaves, Reading, Tools, ToolLeaves, Looks, Sound, Surface
<1>3. WithinLeaves(NameListTools) /\ WithinLeaves(FadeTools) /\ WithinLeaves(AutoGainTools) /\
     WithinLeaves(AutoCompressTools) /\ WithinLeaves(AutoGateTools) /\ WithinLeaves(AutoEqTools)
  BY DEF NameListTools, FadeTools, AutoGainTools, AutoCompressTools, AutoGateTools, AutoEqTools,
     WithinLeaves, Reading, Tools, ToolLeaves, Looks, Sound, Surface
<1>4. WithinLeaves(ValueMemoryTools) /\ WithinLeaves(CalibrationTools) /\
     WithinLeaves(DynamicsStatusTools) /\ WithinLeaves(MeterStatsTools) /\
     WithinLeaves(PluginCatalogTools) /\ WithinLeaves(RtaTools)
  BY DEF ValueMemoryTools, CalibrationTools, DynamicsStatusTools, MeterStatsTools, PluginCatalogTools,
     RtaTools,
     WithinLeaves, Reading, Tools, ToolLeaves, Looks, Sound, Surface
<1>5. WithinLeaves(InsertTools) /\ WithinLeaves(BlockTools) /\ WithinLeaves(ProcOrderTools) /\
     WithinLeaves(DelayTools) /\ WithinLeaves(InputPatchTools) /\ WithinLeaves(SourceTools)
  BY DEF InsertTools, BlockTools, ProcOrderTools, DelayTools, InputPatchTools, SourceTools,
     WithinLeaves, Reading, Tools, ToolLeaves, Looks, Sound, Surface
<1>6. WithinLeaves(MatrixDirectTools) /\ WithinLeaves(LinkStatusTools) /\ WithinLeaves(TalkbackTools)
     /\ WithinLeaves(GpioTools) /\ WithinLeaves(OscMirrorTools) /\ WithinLeaves(BridgeTools)
  BY DEF MatrixDirectTools, LinkStatusTools, TalkbackTools, GpioTools, OscMirrorTools, BridgeTools,
     WithinLeaves, Reading, Tools, ToolLeaves, Looks, Sound, Surface
<1>7. WithinLeaves(PresetTools) /\ WithinLeaves(SaveFlashTools) /\ WithinLeaves(ScribbleTools) /\
     WithinLeaves(LightingTools) /\ WithinLeaves(SelectedStripTools) /\ WithinLeaves(SoloMonitorTools)
  BY DEF PresetTools, SaveFlashTools, ScribbleTools, LightingTools, SelectedStripTools, SoloMonitorTools,
     WithinLeaves, Reading, Tools, ToolLeaves, Looks, Sound, Surface
<1>8. WithinLeaves(UsbPlayerTools) /\ WithinLeaves(WingLiveTools)
  BY DEF UsbPlayerTools, WingLiveTools,
     WithinLeaves, Reading, Tools, ToolLeaves, Looks, Sound, Surface
<1>9. QED
  BY <1>1, <1>2, <1>3, <1>4, <1>5, <1>6, <1>7, <1>8 DEF AllTools, WithinLeaves

CallRecord == [tool : AllTools, confirm : BOOLEAN, todo : Seq(SUBSET ToolLeaves), acked : BOOLEAN,
               stage : {"refused", "reading", "writing", "fallback", "failed", "answered"}]

(* How far a call got, and what it may still write if it was not confirmed. *)
Allowed(c) ==
    /\ c.stage # "fallback" /\ (c.stage \in {"reading", "writing"} => Spared(c.tool))
    /\ c.stage = "writing" => c.tool.does \in {"reads", "keeps"} \/ \A i \in 1..Len(c.todo) : c.todo[i] \subseteq Soft

UnheardInv ==
    /\ moved \subseteq ToolLeaves /\ listed \subseteq ToolLeaves
    /\ watched => showMode
    /\ \/ tc = NoToolCall /\ moved = {} /\ ~watched
       \/ /\ tc \in CallRecord
          /\ tc.stage = "reading" =>
                moved = {} /\ \A i \in 1..Len(tc.todo) : tc.tool.does # "moves" => tc.todo[i] \subseteq tc.tool.keys
          /\ watched /\ ~tc.confirm => moved \subseteq Soft /\ Allowed(tc)

LEMMA WritesAreLeaves ==
    ASSUME NEW t \in AllTools, NEW keys \in SUBSET t.keys
    PROVE  /\ WritesOf(t, keys) \in Seq(SUBSET ToolLeaves)
           /\ \A i \in 1..Len(WritesOf(t, keys)) : t.does # "moves" => WritesOf(t, keys)[i] \subseteq t.keys
<1>1. keys \in SUBSET ToolLeaves /\ {"name"} \in SUBSET ToolLeaves /\ {Sound} \in SUBSET ToolLeaves
  BY KeysAreLeaves DEF WithinLeaves, ToolLeaves, Looks, Sound
<1> DEFINE none == << >>
           both == <<{"name"}, {Sound}>>
           one == <<keys>>
<1>2. none \in Seq(SUBSET ToolLeaves) /\ Len(none) = 0
  BY EmptySeq
<1>3. one \in Seq(SUBSET ToolLeaves) /\ \A i \in 1..Len(one) : one[i] = keys
  BY <1>1
<1>4. both \in Seq(SUBSET ToolLeaves)
  BY <1>1
<1>5. /\ t.does \in {"reads", "keeps"} => WritesOf(t, keys) = none
      /\ WritesOf(t, keys) \in {none, one, both} /\ (WritesOf(t, keys) = both => t.does = "moves" \/ both = one)
  BY DEF WritesOf
<1> HIDE DEF none, one, both
<1>6. CASE WritesOf(t, keys) = none
  BY <1>2, <1>6
<1>7. CASE WritesOf(t, keys) = one
  BY <1>3, <1>7
<1>8. CASE WritesOf(t, keys) = both /\ t.does = "moves"
  BY <1>4, <1>8
<1>9. QED
  BY <1>5, <1>6, <1>7, <1>8

LEMMA CallBegins == ToolCallsInit => UnheardInv
  BY DEF ToolCallsInit, UnheardInv

(* What is written next, and what is left to be written. *)
LEMMA NextWrite ==
    ASSUME NEW left \in Seq(SUBSET ToolLeaves), left # << >>
    PROVE  /\ Head(left) = left[1] /\ Head(left) \subseteq ToolLeaves /\ 1 \in 1..Len(left)
           /\ Tail(left) \in Seq(SUBSET ToolLeaves)
           /\ \A i \in 1..Len(Tail(left)) : i + 1 \in 1..Len(left) /\ Tail(left)[i] = left[i + 1]
  OBVIOUS

(* A call of any tool comes. *)
LEMMA CallComes ==
    ASSUME UnheardInv, CallTool
    PROVE  UnheardInv'
<1>1. PICK t, confirm, keys :
        /\ t \in AllTools /\ confirm \in BOOLEAN /\ keys \in SUBSET t.keys
        /\ tc' = [tool |-> t, confirm |-> confirm, todo |-> WritesOf(t, keys), acked |-> TRUE,
                  stage |-> IF AsksToConfirm(t) /\ showMode /\ ~confirm THEN "refused" ELSE "reading"]
  BY DEF CallTool
<1>2. watched' = showMode /\ UNCHANGED <<showMode, moved, listed>> /\ tc.stage = "idle"
  BY DEF CallTool, Stage
<1>3. moved = {} /\ moved \subseteq ToolLeaves /\ listed \subseteq ToolLeaves
  BY <1>2 DEF UnheardInv, CallRecord
<1> DEFINE left == WritesOf(t, keys)
<1>4. /\ left \in Seq(SUBSET ToolLeaves)
      /\ \A i \in 1..Len(left) : t.does # "moves" => left[i] \subseteq t.keys
  BY <1>1, WritesAreLeaves
<1> HIDE DEF left
<1>5. tc' \in CallRecord
  BY <1>1, <1>4 DEF CallRecord, left
<1>6. /\ tc'.tool = t /\ tc'.todo = left /\ (tc'.stage = "reading" \/ tc'.stage = "refused")
      /\ tc'.stage = "reading" => ~(AsksToConfirm(t) /\ showMode /\ ~confirm)
      /\ tc'.confirm = confirm
  BY <1>1 DEF left
<1>7. watched' /\ ~tc'.confirm => moved' \subseteq Soft /\ Allowed(tc')
  BY <1>1, <1>2, <1>3, <1>6, ToolsAreSpared DEF Allowed, Spares
<1>8. QED
  BY <1>2, <1>3, <1>4, <1>5, <1>6, <1>7 DEF UnheardInv

(* What a handler checks itself is not heard, if it goes on. *)
LEMMA CallIsChecked ==
    ASSUME UnheardInv, BeginTool
    PROVE  UnheardInv'
<1>1. /\ tc.stage = "reading" /\ UNCHANGED <<showMode, moved, listed, watched>>
      /\ tc' = [tc EXCEPT !.stage =
            IF showMode /\ ~tc.confirm /\ \E k \in ChecksFor(tc.tool, tc.todo) : IsAudible(k)
            THEN "refused" ELSE "writing"]
  BY DEF BeginTool, Stage
<1>2. tc \in CallRecord
  BY <1>1 DEF UnheardInv, NoToolCall
<1>3. /\ tc' \in CallRecord /\ tc'.tool = tc.tool /\ tc'.todo = tc.todo /\ tc'.confirm = tc.confirm
      /\ tc'.stage \in {"refused", "writing"}
      /\ tc'.stage = "writing" => ~(showMode /\ ~tc.confirm /\ \E k \in ChecksFor(tc.tool, tc.todo) : IsAudible(k))
  BY <1>1, <1>2 DEF CallRecord
<1>4. ASSUME watched, ~tc.confirm, tc'.stage = "writing"
      PROVE  tc.tool.does \in {"reads", "keeps"} \/ \A i \in 1..Len(tc.todo) : tc.todo[i] \subseteq Soft
  <2>1. /\ Spared(tc.tool) /\ \A k \in ChecksFor(tc.tool, tc.todo) : k \in Looks
        /\ \A i \in 1..Len(tc.todo) : tc.tool.does # "moves" => tc.todo[i] \subseteq tc.tool.keys
    BY <1>1, <1>2, <1>3, <1>4 DEF UnheardInv, Allowed, IsAudible, NoToolCall
  <2>2. CASE tc.tool.does = "moves"
    BY <2>1, <2>2 DEF ChecksFor, Looks, Sound
  <2>3. CASE tc.tool.does \in {"verifies", "restores"}
    <3>1. DOMAIN tc.todo = 1..Len(tc.todo)
      BY <1>2 DEF CallRecord
    <3>2. \A i \in 1..Len(tc.todo) : tc.todo[i] \subseteq ChecksFor(tc.tool, tc.todo)
      BY <2>3, <3>1 DEF ChecksFor
    <3>3. QED
      BY <2>1, <3>2 DEF Soft
  <2>4. CASE tc.tool.does \in {"sets", "commands", "steers"}
    BY <2>1, <2>4 DEF Spared
  <2>5. QED
    BY <2>1, <2>2, <2>3, <2>4 DEF Spared
<1>5. watched' /\ ~tc'.confirm => moved' \subseteq Soft /\ Allowed(tc')
  <2>1. watched /\ ~tc.confirm => moved \subseteq Soft /\ Spared(tc.tool)
    BY <1>1, <1>2 DEF UnheardInv, Allowed, NoToolCall
  <2>2. QED
    BY <1>1, <1>3, <1>4, <2>1 DEF Allowed
<1>6. QED
  BY <1>1, <1>3, <1>5 DEF UnheardInv

(* A write goes out: wholly, in part, or into the unknown. *)
LEMMA CallWrites ==
    ASSUME UnheardInv, ToolAccepted \/ ToolRejected \/ ToolLost
    PROVE  UnheardInv'
<1>1. Sending /\ UNCHANGED <<showMode, watched>>
  BY DEF ToolAccepted, ToolRejected, ToolLost
<1>2. tc \in CallRecord /\ tc.stage = "writing" /\ tc.todo # << >> /\ tc.todo \in Seq(SUBSET ToolLeaves)
      /\ tc.tool.does \notin {"reads", "keeps"}
  BY <1>1 DEF Sending, Stage, UsesBulkSet, UnheardInv, NoToolCall, CallRecord
<1> DEFINE left == tc.todo
<1>3. /\ Head(left) = left[1] /\ Head(left) \subseteq ToolLeaves /\ 1 \in 1..Len(left)
      /\ Tail(left) \in Seq(SUBSET ToolLeaves)
      /\ \A i \in 1..Len(Tail(left)) : i + 1 \in 1..Len(left) /\ Tail(left)[i] = left[i + 1]
  BY <1>2, NextWrite
<1> HIDE DEF left
<1>4. /\ moved' \subseteq moved \cup Head(left) /\ listed' \subseteq listed \cup Head(left)
      /\ tc' \in {[tc EXCEPT !.todo = Tail(@)], [tc EXCEPT !.acked = FALSE, !.todo = Tail(@)],
                  [tc EXCEPT !.acked = FALSE, !.todo = Tail(@), !.stage = "fallback"], [tc EXCEPT !.stage = "failed"]}
      /\ tc'.stage = "fallback" => tc.tool.does = "toggles"
  <2>1. CASE ToolAccepted
    BY <1>2, <2>1 DEF ToolAccepted, RecordWrite, CallRecord, left
  <2>2. CASE ToolRejected
    BY <1>2, <2>2 DEF ToolRejected, RecordWrite, CallRecord, left
  <2>3. CASE ToolLost
    BY <1>2, <2>3 DEF ToolLost, CallRecord, left
  <2>4. QED
    BY <2>1, <2>2, <2>3
<1>5. /\ tc' \in CallRecord /\ tc'.tool = tc.tool /\ tc'.confirm = tc.confirm
      /\ tc'.stage \in {"writing", "fallback", "failed"} /\ tc'.todo \in {left, Tail(left)}
  BY <1>2, <1>3, <1>4 DEF CallRecord, left
<1>6. ASSUME watched, ~tc.confirm PROVE moved' \subseteq Soft /\ Allowed(tc')
  <2>1. moved \subseteq Soft /\ Spared(tc.tool) /\ \A i \in 1..Len(left) : left[i] \subseteq Soft
    BY <1>2, <1>6 DEF UnheardInv, Allowed, NoToolCall, left
  <2>2. Head(left) \subseteq Soft /\ \A i \in 1..Len(Tail(left)) : Tail(left)[i] \subseteq Soft
    BY <1>3, <2>1
  <2>3. \A i \in 1..Len(tc'.todo) : tc'.todo[i] \subseteq Soft
    BY <1>5, <2>1, <2>2
  <2>4. QED
    BY <1>4, <1>5, <2>1, <2>2, <2>3 DEF Allowed, Spared
<1>7. moved \subseteq ToolLeaves /\ listed \subseteq ToolLeaves /\ (watched => showMode)
  BY DEF UnheardInv
<1>8. QED
  BY <1>1, <1>3, <1>4, <1>5, <1>6, <1>7 DEF UnheardInv

LEMMA CallGoesOn == UnheardInv /\ [ToolCallsNext]_toolVars => UnheardInv'
<1> SUFFICES ASSUME UnheardInv, [ToolCallsNext]_toolVars PROVE UnheardInv'
  OBVIOUS
<1>1. CASE BareSet
  <2>1. tc \in CallRecord /\ UNCHANGED <<showMode, listed, watched>> /\ moved' \subseteq moved \cup tc.tool.keys
    BY <1>1 DEF BareSet, Stage, UnheardInv, NoToolCall
  <2>2. \/ tc.stage = "fallback" /\ tc' = [tc EXCEPT !.todo = << >>, !.stage = "writing"]
        \/ tc.stage = "writing" /\ tc.tool.does = "tags" /\ \E s \in {"writing", "failed"} :
                tc' = [tc EXCEPT !.todo = << >>, !.stage = s]
    BY <1>1 DEF BareSet, Stage
  <2>3. tc' \in CallRecord /\ tc'.stage # "reading" /\ tc'.confirm = tc.confirm
    <3>1. << >> \in Seq(SUBSET ToolLeaves)
      BY EmptySeq
    <3>2. \E s \in {"writing", "failed"} : tc' = [tc EXCEPT !.todo = << >>, !.stage = s]
      BY <2>2
    <3>3. QED
      BY <2>1, <3>1, <3>2 DEF CallRecord
  <2>4. tc.tool.keys \subseteq ToolLeaves
    BY <2>1, KeysAreLeaves DEF WithinLeaves, CallRecord
  <2>5. ~(watched /\ ~tc.confirm)
    BY <2>1, <2>2 DEF UnheardInv, Allowed, Spared, NoToolCall
  <2>6. QED
    BY <2>1, <2>3, <2>4, <2>5 DEF UnheardInv
<1>2. CASE AnswerTool
  <2>1. /\ tc \in CallRecord /\ tc.stage = "writing" /\ tc' = [tc EXCEPT !.stage = "answered"]
        /\ UNCHANGED <<showMode, moved, listed, watched>>
    BY <1>2 DEF AnswerTool, Stage, UnheardInv, NoToolCall
  <2>2. tc' \in CallRecord /\ tc'.stage = "answered" /\ tc'.confirm = tc.confirm
    BY <2>1 DEF CallRecord
  <2>3. watched /\ ~tc.confirm => moved \subseteq Soft
    BY <2>1 DEF UnheardInv, NoToolCall
  <2>4. QED
    BY <2>1, <2>2, <2>3 DEF UnheardInv, Allowed
<1>3. CASE NextTool
  BY <1>3 DEF NextTool, UnheardInv
<1>4. CASE SwitchShowMode
  BY <1>4 DEF SwitchShowMode, UnheardInv
<1>5. CASE UNCHANGED toolVars
  BY <1>5 DEF toolVars, UnheardInv
<1>6. QED
  BY <1>1, <1>2, <1>3, <1>4, <1>5, CallComes, CallIsChecked, CallWrites DEF ToolCallsNext

(* The calls of the tools keep their types. *)
THEOREM CallTypes == ToolCallsSpec => []ToolType
<1>1. UnheardInv => ToolType
  BY DEF UnheardInv, ToolType, CallRecord
<1>2. QED
  BY <1>1, CallBegins, CallGoesOn, PTL DEF ToolCallsSpec

(* While show mode is on, nothing that is heard changes through a call that *)
(* was not confirmed, whichever of the tools it is and whatever it writes.  *)
THEOREM UnconfirmedUnheard == ToolCallsSpec => []UnconfirmedIsUnheard
<1>1. UnheardInv => UnconfirmedIsUnheard
  BY DEF UnheardInv, UnconfirmedIsUnheard, Soft
<1>2. QED
  BY <1>1, CallBegins, CallGoesOn, PTL DEF ToolCallsSpec

-----------------------------------------------------------------------------
(* Fades. *)

FadeRecord == [st : FadeStages, asked : Asked \cup {Idle.asked}, from : Int, target : Int, step : Nat]
RequestRecord == [kind : {"get", "set"}, id : Ids]

(* Only the fade whose timer runs moves the fader; a read that is queued is *)
(* that of a fade that waits for it, a last step that of one that is over.  *)
OneMoves == \A i \in Ids : fades[i].st = "moving" <=> active = i

Queued ==
    /\ \A n \in 1..Len(queue) : fades[queue[n].id].st = IF queue[n].kind = "get" THEN "reading" ELSE "over"
    /\ \A m, n \in 1..Len(queue) : queue[m].kind = "get" /\ queue[n].kind = "get" /\ queue[m].id = queue[n].id => m = n

LastSet(n) ==
    /\ n \in 1..Len(queue) /\ queue[n].kind = "set"
    /\ \A m \in 1..Len(queue) : m > n => queue[m].kind # "set"

(* The fader comes to rest where it was told to: by the fade that moves it, *)
(* else by the last step that is queued last, else it is there.             *)
ComesToRest == told # Nobody =>
    /\ \A i \in Ids : active = i => fades[i].target = told
    /\ active = Nobody => \A n \in 1..Len(queue) : LastSet(n) => fades[queue[n].id].target = told
    /\ active = Nobody /\ (\A n \in 1..Len(queue) : queue[n].kind # "set") => level = told

FadeInv == FadeTypeOK /\ OneMoves /\ Queued /\ ComesToRest

LEMMA FadeBegins == FadeInit => FadeInv
<1> SUFFICES ASSUME FadeInit PROVE FadeInv
  OBVIOUS
<1>1. Len(queue) = 0 /\ queue \in Seq(RequestRecord)
  BY EmptySeq DEF FadeInit
<1>2. Idle \in FadeRecord
  BY DEF Idle, FadeRecord, FadeStages
<1>3. fades \in [Ids -> FadeRecord] /\ \A i \in Ids : fades[i].st = "idle"
  BY <1>2 DEF FadeInit, Idle
<1>4. FadeTypeOK
  BY <1>1, <1>3 DEF FadeTypeOK, FadeInit, FadeRecord, RequestRecord
<1>5. OneMoves
  BY <1>3, FadeAssumption DEF FadeInit, OneMoves
<1>6. Queued /\ ComesToRest
  BY <1>1 DEF FadeInit, Queued, ComesToRest
<1>7. QED
  BY <1>4, <1>5, <1>6 DEF FadeInv

(* One fade goes on: its record, and nobody else's. *)
LEMMA FadeMoves ==
    ASSUME FadeTypeOK, NEW i \in Ids, NEW f \in FadeRecord, fades' = [fades EXCEPT ![i] = f]
    PROVE  /\ fades' \in [Ids -> FadeRecord] /\ fades'[i] = f
           /\ \A j \in Ids : j # i => fades'[j] = fades[j]
  BY DEF FadeTypeOK, FadeRecord

LEMMA QueueIs ==
    ASSUME FadeTypeOK
    PROVE  /\ queue \in Seq(RequestRecord) /\ Len(queue) \in Nat
           /\ fades \in [Ids -> FadeRecord] /\ \A i \in Ids : fades[i] \in FadeRecord
           /\ \A n \in 1..Len(queue) : queue[n].id \in Ids /\ queue[n].kind \in {"get", "set"}
<1>1. queue \in Seq(RequestRecord) /\ fades \in [Ids -> FadeRecord]
  BY DEF FadeTypeOK, FadeRecord, RequestRecord
<1>2. \A n \in 1..Len(queue) : queue[n] \in RequestRecord
  BY <1>1
<1>3. QED
  BY <1>1, <1>2 DEF RequestRecord

(* A request is queued last. *)
LEMMA QueuedLast ==
    ASSUME FadeTypeOK, NEW q \in RequestRecord, queue' = Append(queue, q)
    PROVE  /\ queue' \in Seq(RequestRecord) /\ Len(queue') = Len(queue) + 1 /\ queue'[Len(queue) + 1] = q
           /\ \A n \in 1..Len(queue) : queue'[n] = queue[n]
  BY QueueIs, AppendProperties

(* The first request leaves the queue. *)
LEMMA FirstLeaves ==
    ASSUME FadeTypeOK, queue # <<>>, queue' = Tail(queue)
    PROVE  /\ Head(queue) = queue[1] /\ 1 \in 1..Len(queue) /\ Head(queue) \in RequestRecord
           /\ queue' \in Seq(RequestRecord) /\ Len(queue') = Len(queue) - 1
           /\ \A n \in 1..Len(queue') : n + 1 \in 1..Len(queue) /\ queue'[n] = queue[n + 1]
<1>1. queue \in Seq(RequestRecord)
  BY QueueIs
<1> HIDE DEF RequestRecord
<1>2. QED
  BY <1>1

LEMMA FadeAsked ==
    ASSUME FadeInv, NEW i \in Ids, NEW a \in Asked, AskFade(i, a)
    PROVE  FadeInv'
<1> DEFINE f == [Idle EXCEPT !.st = "reading", !.asked = a]
           q == [kind |-> "get", id |-> i]
<1>1. /\ FadeTypeOK /\ OneMoves /\ Queued /\ ComesToRest
      /\ fades[i].st = "idle" /\ fades' = [fades EXCEPT ![i] = f] /\ queue' = Append(queue, q)
      /\ UNCHANGED <<level, active, mishaps, told>>
  BY DEF FadeInv, AskFade
<1>2. f \in FadeRecord /\ f.st = "reading" /\ q \in RequestRecord /\ q.kind = "get" /\ q.id = i
  <2>1. PICK r : r = Idle.asked
    OBVIOUS
  <2>2. PICK z : z = Idle
    OBVIOUS
  <2>3. Idle \in FadeRecord
    BY DEF Idle, FadeRecord, FadeStages
  <2>4. f \in FadeRecord /\ f.st = "reading"
    <3> DEFINE R == [st : FadeStages, asked : Asked \cup {r}, from : Int, target : Int, step : Nat]
    <3>1. R = FadeRecord
      BY <2>1 DEF FadeRecord
    <3>2. [z EXCEPT !.st = "reading", !.asked = a] \in R /\ [z EXCEPT !.st = "reading", !.asked = a].st = "reading"
      <4>1. z \in R
        BY <2>2, <2>3, <3>1
      <4>2. QED
        BY <4>1 DEF FadeStages
    <3>3. QED
      BY <2>2, <3>1, <3>2
  <2>5. q \in RequestRecord /\ q.kind = "get" /\ q.id = i
    BY DEF RequestRecord
  <2>6. QED
    BY <2>4, <2>5
<1> HIDE DEF f, q
<1>3. fades' \in [Ids -> FadeRecord] /\ fades'[i] = f /\ \A j \in Ids : j # i => fades'[j] = fades[j]
  BY <1>1, <1>2, FadeMoves
<1>4. /\ queue' \in Seq(RequestRecord) /\ Len(queue') = Len(queue) + 1 /\ queue'[Len(queue) + 1] = q
      /\ \A n \in 1..Len(queue) : queue'[n] = queue[n]
  BY <1>1, <1>2, QueuedLast
<1>5. Len(queue) \in Nat /\ \A n \in 1..Len(queue) : queue[n].id \in Ids /\ queue[n].id # i
  BY <1>1, QueueIs DEF Queued
<1>6. FadeTypeOK'
  BY <1>1, <1>3, <1>4 DEF FadeTypeOK, FadeRecord, RequestRecord
<1>7. OneMoves'
  BY <1>1, <1>2, <1>3 DEF OneMoves
<1>8. Queued'
  <2>1. \A n \in 1..Len(queue') : n = Len(queue) + 1 \/ n \in 1..Len(queue)
    BY <1>4, <1>5
  <2>2. \A n \in 1..Len(queue') : fades'[queue'[n].id].st = IF queue'[n].kind = "get" THEN "reading" ELSE "over"
    BY <1>1, <1>2, <1>3, <1>4, <1>5, <2>1 DEF Queued
  <2>3. \A n \in 1..Len(queue) : queue'[n].id # queue'[Len(queue) + 1].id
    BY <1>2, <1>4, <1>5
  <2>4. QED
    BY <1>1, <1>4, <2>1, <2>2, <2>3 DEF Queued
<1>9. ComesToRest'
  <2> SUFFICES ASSUME told # Nobody PROVE
        /\ \A j \in Ids : active = j => fades'[j].target = told
        /\ active = Nobody => \A n \in 1..Len(queue') : LastSet(n)' => fades'[queue'[n].id].target = told
        /\ active = Nobody /\ (\A n \in 1..Len(queue') : queue'[n].kind # "set") => level = told
    BY <1>1 DEF ComesToRest
  <2>1. \A n \in 1..Len(queue') : LastSet(n)' => n \in 1..Len(queue) /\ LastSet(n)
    BY <1>2, <1>4, <1>5 DEF LastSet
  <2>2. \A j \in Ids : active = j => fades'[j].target = told
    BY <1>1, <1>3 DEF ComesToRest, OneMoves
  <2>3. active = Nobody => \A n \in 1..Len(queue') : LastSet(n)' => fades'[queue'[n].id].target = told
    BY <1>1, <1>3, <1>4, <1>5, <2>1 DEF ComesToRest
  <2>4. (\A n \in 1..Len(queue') : queue'[n].kind # "set") => \A n \in 1..Len(queue) : queue[n].kind # "set"
    BY <1>4, <1>5
  <2>5. QED
    BY <1>1, <2>2, <2>3, <2>4 DEF ComesToRest
<1>10. QED
  BY <1>6, <1>7, <1>8, <1>9 DEF FadeInv

(* The request at the head of the queue ends, answered or not. *)
LEMMA FadeHeard ==
    ASSUME FadeInv, Answered \/ Unanswered
    PROVE  FadeInv'
<1>1. FadeTypeOK /\ OneMoves /\ Queued /\ ComesToRest
  BY DEF FadeInv
<1>2. queue # <<>> /\ queue' = Tail(queue) /\ active' = active
  BY DEF Answered, Unanswered
<1>q. PICK q : q = Head(queue)
  OBVIOUS
<1>3. /\ q = queue[1] /\ 1 \in 1..Len(queue) /\ q.id \in Ids /\ q.kind \in {"get", "set"}
      /\ queue' \in Seq(RequestRecord) /\ Len(queue') = Len(queue) - 1
      /\ \A n \in 1..Len(queue') : n + 1 \in 1..Len(queue) /\ queue'[n] = queue[n + 1]
  BY <1>1, <1>2, <1>q, FirstLeaves DEF RequestRecord
<1>4. Len(queue) \in Nat /\ (\A n \in 1..Len(queue) : queue[n].id \in Ids /\ queue[n].kind \in {"get", "set"})
  BY <1>1, QueueIs
<1>5. \A m \in 2..Len(queue) : m - 1 \in 1..Len(queue') /\ queue'[m - 1] = queue[m]
  BY <1>3, <1>4
<1>s. ASSUME NEW n \in 1..Len(queue'), LastSet(n)' PROVE LastSet(n + 1)
  <2>1. ASSUME NEW m \in 1..Len(queue), m > n + 1 PROVE queue[m].kind # "set"
    <3>1. m \in 2..Len(queue) /\ m - 1 > n
      BY <1>3, <1>4, <2>1
    <3>2. m - 1 \in 1..Len(queue') /\ queue'[m - 1] = queue[m]
      BY <1>5, <3>1
    <3>3. QED
      BY <1>s, <3>1, <3>2 DEF LastSet
  <2>2. queue[n + 1].kind = "set" /\ n + 1 \in 1..Len(queue)
    BY <1>3, <1>s DEF LastSet
  <2>3. QED
    BY <2>1, <2>2 DEF LastSet
<1>t. ASSUME \A n \in 1..Len(queue') : fades'[queue'[n].id].st = fades[queue'[n].id].st
      PROVE  Queued'
  <2>1. ASSUME NEW n \in 1..Len(queue')
        PROVE  fades'[queue'[n].id].st = IF queue'[n].kind = "get" THEN "reading" ELSE "over"
    <3>1. PICK k \in 1..Len(queue) : k = n + 1 /\ queue'[n] = queue[k]
      BY <1>3
    <3>2. QED
      BY <1>1, <1>t, <3>1 DEF Queued
  <2>2. ASSUME NEW m \in 1..Len(queue'), NEW n \in 1..Len(queue'),
               queue'[m].kind = "get", queue'[n].kind = "get", queue'[m].id = queue'[n].id
        PROVE  m = n
    <3>1. PICK k \in 1..Len(queue) : k = n + 1 /\ queue'[n] = queue[k]
      BY <1>3
    <3>2. PICK j \in 1..Len(queue) : j = m + 1 /\ queue'[m] = queue[j]
      BY <1>3
    <3>3. j = k
      BY <1>1, <2>2, <3>1, <3>2 DEF Queued
    <3>4. QED
      BY <1>3, <1>4, <3>1, <3>2, <3>3
  <2>3. QED
    BY <2>1, <2>2 DEF Queued
<1>6. fades[q.id] \in FadeRecord /\ level \in Int
  BY <1>1, <1>3, QueueIs DEF FadeTypeOK
<1>7. ASSUME NEW f \in FadeRecord, f.st \in {"resuming", "over"}, f.target = fades[q.id].target, q.kind = "get",
             fades' = [fades EXCEPT ![q.id] = f], UNCHANGED <<level, told>>, mishaps' \in Nat
      PROVE  FadeInv'
  <2>1. fades' \in [Ids -> FadeRecord] /\ fades'[q.id] = f /\ \A j \in Ids : j # q.id => fades'[j] = fades[j]
    BY <1>1, <1>3, <1>7, FadeMoves
  <2>2. FadeTypeOK'
    BY <1>1, <1>2, <1>3, <1>7, <2>1 DEF FadeTypeOK, FadeRecord, RequestRecord
  <2>3. OneMoves'
    BY <1>1, <1>2, <1>3, <1>7, <2>1 DEF OneMoves, Queued
  <2>4. \A n \in 1..Len(queue') : queue'[n].id # q.id
    <3>1. SUFFICES ASSUME NEW n \in 1..Len(queue') PROVE queue'[n].id # q.id
      OBVIOUS
    <3>2. fades[q.id].st = "reading"
      BY <1>1, <1>3, <1>7 DEF Queued
    <3>3. PICK k \in 1..Len(queue) : k # 1 /\ queue'[n] = queue[k]
      BY <1>3, <1>4
    <3>4. CASE queue[k].kind = "get"
      BY <1>1, <1>3, <1>7, <3>3, <3>4 DEF Queued
    <3>5. CASE queue[k].kind = "set"
      BY <1>1, <3>2, <3>3, <3>5 DEF Queued
    <3>6. QED
      BY <1>4, <3>4, <3>5
  <2>5. Queued'
    BY <1>3, <1>4, <1>t, <2>1, <2>4
  <2>6. \A j \in Ids : fades'[j].target = fades[j].target
    BY <1>3, <1>7, <2>1
  <2>7. \A n \in 1..Len(queue') : LastSet(n)' => LastSet(n + 1)
    BY <1>s
  <2>8. (\A n \in 1..Len(queue') : queue'[n].kind # "set") => \A n \in 1..Len(queue) : queue[n].kind # "set"
    <3>1. \A n \in 1..Len(queue) : n = 1 \/ n \in 2..Len(queue)
      BY <1>4
    <3>2. QED
      BY <1>3, <1>5, <1>7, <3>1
  <2>9. ComesToRest'
    <3>1. UNCHANGED <<active, level, told>>
      BY <1>2, <1>7
    <3> SUFFICES ASSUME told # Nobody PROVE ComesToRest'
      BY <3>1 DEF ComesToRest
    <3>2. \A i \in Ids : active = i => fades'[i].target = told
      BY <1>1, <2>6 DEF ComesToRest
    <3>3. ASSUME active = Nobody, NEW n \in 1..Len(queue'), LastSet(n)' PROVE fades'[queue'[n].id].target = told
      <4>1. n + 1 \in 1..Len(queue) /\ queue'[n] = queue[n + 1] /\ LastSet(n + 1)
        BY <1>3, <2>7, <3>3
      <4>2. PICK k \in 1..Len(queue) : queue'[n] = queue[k] /\ LastSet(k)
        BY <4>1
      <4>3. queue[k].id \in Ids /\ fades[queue[k].id].target = told
        BY <1>1, <1>4, <3>3, <4>2 DEF ComesToRest
      <4>4. QED
        BY <2>6, <4>2, <4>3
    <3>4. active = Nobody /\ (\A n \in 1..Len(queue') : queue'[n].kind # "set") => level = told
      BY <1>1, <2>8 DEF ComesToRest
    <3>5. QED
      BY <3>1, <3>2, <3>3, <3>4 DEF ComesToRest
  <2>10. QED
    BY <2>2, <2>3, <2>5, <2>9 DEF FadeInv
<1>8. ASSUME q.kind = "set", fades' = fades, mishaps' \in Nat,
             \/ level' = fades[q.id].target /\ told' = told
             \/ told' = Nobody /\ level' = level
      PROVE  FadeInv'
  <2>1. FadeTypeOK'
    BY <1>1, <1>2, <1>3, <1>6, <1>8 DEF FadeTypeOK, FadeRecord, RequestRecord
  <2>2. OneMoves'
    BY <1>1, <1>2, <1>8 DEF OneMoves
  <2>3. Queued'
    BY <1>8, <1>t
  <2>4. \A n \in 1..Len(queue') : LastSet(n)' => LastSet(n + 1)
    BY <1>s
  <2>5. (\A n \in 1..Len(queue') : queue'[n].kind # "set") => LastSet(1)
    <3>1. \A m \in 1..Len(queue) : m > 1 => m \in 2..Len(queue)
      BY <1>4
    <3>2. QED
      BY <1>3, <1>5, <1>8, <3>1 DEF LastSet
  <2>6. ComesToRest'
    BY <1>1, <1>2, <1>3, <1>8, <2>4, <2>5 DEF ComesToRest
  <2>7. QED
    BY <2>1, <2>2, <2>3, <2>6 DEF FadeInv
<1>9. CASE Answered
  <2>1. CASE q.kind = "get"
    <3> DEFINE f == [fades[q.id] EXCEPT !.st = "resuming", !.from = level]
    <3>1. /\ fades' = [fades EXCEPT ![q.id].st = "resuming", ![q.id].from = level]
          /\ UNCHANGED <<level, told, mishaps>>
      BY <1>9, <1>q, <2>1 DEF Answered
    <3>2. fades' = [fades EXCEPT ![q.id] = f]
      BY <1>3, <1>6, <3>1, QueueIs, <1>1 DEF FadeRecord
    <3>3. f \in FadeRecord /\ f.st = "resuming" /\ f.target = fades[q.id].target
      BY <1>6 DEF FadeRecord, FadeStages
    <3> HIDE DEF f
    <3>4. QED
      BY <1>1, <1>7, <2>1, <3>1, <3>2, <3>3 DEF FadeTypeOK
  <2>2. CASE q.kind = "set"
    BY <1>1, <1>8, <1>9, <1>q, <2>2 DEF Answered, FadeTypeOK
  <2>3. QED
    BY <1>3, <2>1, <2>2
<1>10. CASE Unanswered
  <2>1. CASE q.kind = "get"
    <3> DEFINE f == [fades[q.id] EXCEPT !.st = "over"]
    <3>1. fades' = [fades EXCEPT ![q.id] = f] /\ UNCHANGED <<level, told>> /\ mishaps' = mishaps + 1
      BY <1>10, <1>q, <2>1 DEF Unanswered
    <3>2. f \in FadeRecord /\ f.st = "over" /\ f.target = fades[q.id].target
      BY <1>6 DEF FadeRecord, FadeStages
    <3> HIDE DEF f
    <3>3. mishaps' \in Nat
      BY <1>1, <3>1 DEF FadeTypeOK
    <3>4. QED
      BY <1>7, <2>1, <3>1, <3>2, <3>3
  <2>2. CASE q.kind = "set"
    <3>1. fades' = fades /\ told' = Nobody /\ level' = level /\ mishaps' = mishaps + 1
      BY <1>10, <1>q, <2>2 DEF Unanswered
    <3>2. mishaps' \in Nat
      BY <1>1, <3>1 DEF FadeTypeOK
    <3>3. QED
      BY <1>8, <2>2, <3>1, <3>2
  <2>3. QED
    BY <1>3, <2>1, <2>2
<1>11. QED
  BY <1>9, <1>10

(* A fade that waits for the console neither starts nor ends: the queue    *)
(* stays in order.                                                         *)
LEMMA QueueStands ==
    ASSUME FadeTypeOK, Queued, queue' = queue,
           \A j \in Ids : fades'[j].st = fades[j].st \/ fades[j].st \notin {"reading", "over"}
    PROVE  Queued'
<1>1. \A n \in 1..Len(queue) : queue[n].id \in Ids
  BY QueueIs
<1>2. \A n \in 1..Len(queue) : fades[queue[n].id].st \in {"reading", "over"}
  BY DEF Queued
<1>3. \A n \in 1..Len(queue) : fades'[queue[n].id].st = fades[queue[n].id].st
  BY <1>1, <1>2
<1>4. QED
  BY <1>3 DEF Queued

LEMMA FadeResumes ==
    ASSUME FadeInv, NEW i \in Ids, Resume(i)
    PROVE  FadeInv'
<1>1. FadeTypeOK /\ OneMoves /\ Queued /\ ComesToRest
  BY DEF FadeInv
<1>2. /\ fades \in [Ids -> FadeRecord] /\ (\A j \in Ids : fades[j] \in FadeRecord)
      /\ fades[i].st = "resuming" /\ active # i
      /\ UNCHANGED <<level, queue, mishaps>>
  BY <1>1, QueueIs DEF Resume, OneMoves
<1>3. CASE Requested(fades[i]) > Top
  <2> DEFINE f == [fades[i] EXCEPT !.st = "over"]
  <2>1. fades' = [fades EXCEPT ![i] = f] /\ active' = active /\ told' = told
    BY <1>3 DEF Resume
  <2>2. f \in FadeRecord /\ f.st = "over" /\ f.target = fades[i].target
    BY <1>2 DEF FadeRecord, FadeStages
  <2> HIDE DEF f
  <2>3. fades' \in [Ids -> FadeRecord] /\ fades'[i] = f /\ \A j \in Ids : j # i => fades'[j] = fades[j]
    BY <1>1, <2>1, <2>2, FadeMoves
  <2>4. FadeTypeOK'
    BY <1>1, <1>2, <2>1, <2>3 DEF FadeTypeOK, FadeRecord
  <2>5. OneMoves'
    BY <1>1, <1>2, <2>1, <2>2, <2>3 DEF OneMoves
  <2>6. Queued'
    BY <1>1, <1>2, <2>3, QueueStands
  <2>7. \A j \in Ids : fades'[j].target = fades[j].target
    BY <2>2, <2>3
  <2>8. \A n \in 1..Len(queue) : queue[n].id \in Ids
    BY <1>1, QueueIs
  <2>9. ComesToRest'
    BY <1>1, <1>2, <2>1, <2>7, <2>8 DEF ComesToRest, LastSet
  <2>10. QED
    BY <2>4, <2>5, <2>6, <2>9 DEF FadeInv
<1>4. CASE ~(Requested(fades[i]) > Top)
  <2> DEFINE g(j) == IF j = i THEN [fades[i] EXCEPT !.st = "moving", !.target = Floored(Requested(fades[i]))]
                     ELSE IF j = active THEN [fades[j] EXCEPT !.st = "over"] ELSE fades[j]
  <2>1. fades' = [j \in Ids |-> g(j)] /\ active' = i /\ told' = fades'[i].target
    BY <1>4 DEF Resume
  <2>2. g(i).st = "moving" /\ \A j \in Ids : j # i => g(j).st = IF j = active THEN "over" ELSE fades[j].st
    BY <1>2 DEF FadeRecord
  <2>a. fades[i].asked.value \in Int /\ fades[i].asked.relative \in BOOLEAN
    <3>1. Idle.asked.value \in Int /\ Idle.asked.relative \in BOOLEAN
      <4>1. Idle.asked = [relative |-> TRUE, value |-> 0]
        BY DEF Idle
      <4>2. Idle.asked.value = 0 /\ Idle.asked.relative = TRUE
        BY <4>1
      <4>3. Idle.asked.relative \in BOOLEAN
        BY <4>2, Zenon
      <4>4. QED
        BY <4>2, <4>3
    <3>2. fades[i].asked \in Asked \/ fades[i].asked = Idle.asked
      <4>1. PICK r : r = Idle.asked
        OBVIOUS
      <4>2. fades[i] \in [st : FadeStages, asked : Asked \cup {r}, from : Int, target : Int, step : Nat]
        BY <1>2, <4>1 DEF FadeRecord
      <4>3. QED
        BY <4>1, <4>2
    <3>3. QED
      BY <3>1, <3>2, FadeAssumption
  <2>b. Requested(fades[i]) \in Int
    <3>1. fades[i].from \in Int
      BY <1>2 DEF FadeRecord
    <3>2. QED
      BY <2>a, <3>1 DEF Requested
  <2>c. Floored(Requested(fades[i])) \in Int
    BY <2>b, FadeAssumption DEF Floored
  <2>3. \A j \in Ids : g(j) \in FadeRecord
    BY <1>2, <2>c DEF FadeRecord, FadeStages
  <2> HIDE DEF g
  <2>4. fades' \in [Ids -> FadeRecord] /\ \A j \in Ids : fades'[j] = g(j)
    BY <2>1, <2>3
  <2>5. told' \in Int
    BY <2>1, <2>3, <2>4 DEF FadeRecord
  <2>6. FadeTypeOK'
    BY <1>1, <1>2, <2>1, <2>4, <2>5 DEF FadeTypeOK, FadeRecord
  <2>7. OneMoves'
    BY <1>1, <1>2, <2>1, <2>2, <2>4 DEF OneMoves
  <2>8. Queued'
    <3>1. \A j \in Ids : fades'[j].st = fades[j].st \/ fades[j].st \notin {"reading", "over"}
      BY <1>1, <1>2, <2>2, <2>4 DEF OneMoves
    <3>2. QED
      BY <1>1, <1>2, <3>1, QueueStands
  <2>9. ComesToRest'
    BY <2>1, FadeAssumption DEF ComesToRest
  <2>10. QED
    BY <2>6, <2>7, <2>8, <2>9 DEF FadeInv
<1>5. QED
  BY <1>3, <1>4

(* A timer that is stopped, by a cancel or by a step that cannot be sent,  *)
(* leaves its fade over.                                                   *)
LEMMA FadeStops ==
    ASSUME FadeInv, NEW i \in Ids, active = i, active' = Nobody, told' = Nobody, mishaps' \in Nat,
           fades' = [fades EXCEPT ![i].st = "over"], UNCHANGED <<level, queue>>
    PROVE  FadeInv'
<1> DEFINE f == [fades[i] EXCEPT !.st = "over"]
<1>1. FadeTypeOK /\ OneMoves /\ Queued /\ ComesToRest /\ fades[i].st = "moving"
  BY DEF FadeInv, OneMoves
<1>2. fades' = [fades EXCEPT ![i] = f] /\ fades[i] \in FadeRecord
  BY <1>1, QueueIs
<1>3. f \in FadeRecord /\ f.st = "over"
  BY <1>2 DEF FadeRecord, FadeStages
<1> HIDE DEF f
<1>4. fades' \in [Ids -> FadeRecord] /\ fades'[i] = f /\ \A j \in Ids : j # i => fades'[j] = fades[j]
  BY <1>1, <1>2, <1>3, FadeMoves
<1>5. FadeTypeOK'
  BY <1>1, <1>4 DEF FadeTypeOK, FadeRecord
<1>6. OneMoves'
  BY <1>1, <1>3, <1>4, FadeAssumption DEF OneMoves
<1>7. Queued'
  BY <1>1, <1>4, QueueStands
<1>8. ComesToRest'
  BY DEF ComesToRest
<1>9. QED
  BY <1>5, <1>6, <1>7, <1>8 DEF FadeInv

LEMMA FadeTicks ==
    ASSUME FadeInv, NEW i \in Ids, NEW v \in Floor..Top, Tick(i, v)
    PROVE  FadeInv'
<1>1. FadeTypeOK /\ OneMoves /\ Queued /\ ComesToRest
  BY DEF FadeInv
<1>2. /\ fades[i] \in FadeRecord /\ fades[i].st = "moving" /\ active = i
      /\ mishaps' = mishaps /\ told' = told
  BY <1>1, QueueIs DEF Tick, OneMoves
<1>3. Len(queue) \in Nat /\ \A n \in 1..Len(queue) : queue[n].id \in Ids /\ queue[n].id # i
  <2>1. \A n \in 1..Len(queue) : fades[queue[n].id].st \in {"reading", "over"}
    BY <1>1 DEF Queued
  <2>2. QED
    BY <1>1, <1>2, <2>1, QueueIs
<1>4. CASE fades[i].step + 1 < Steps
  <2> DEFINE f == [fades[i] EXCEPT !.step = @ + 1]
  <2>1. fades' = [fades EXCEPT ![i] = f] /\ level' = v /\ UNCHANGED <<active, queue>>
    BY <1>2, <1>4 DEF Tick
  <2>2. f \in FadeRecord /\ f.st = "moving" /\ f.target = fades[i].target
    BY <1>2 DEF FadeRecord
  <2> HIDE DEF f
  <2>3. fades' \in [Ids -> FadeRecord] /\ fades'[i] = f /\ \A j \in Ids : j # i => fades'[j] = fades[j]
    BY <1>1, <2>1, <2>2, FadeMoves
  <2>4. FadeTypeOK'
    BY <1>1, <1>2, <2>1, <2>3, FadeAssumption DEF FadeTypeOK, FadeRecord
  <2>5. OneMoves'
    BY <1>1, <1>2, <2>1, <2>2, <2>3 DEF OneMoves
  <2>6. Queued'
    BY <1>1, <1>2, <2>1, <2>2, <2>3, QueueStands
  <2>7. ComesToRest'
    BY <1>1, <1>2, <2>1, <2>2, <2>3, FadeAssumption DEF ComesToRest
  <2>8. QED
    BY <2>4, <2>5, <2>6, <2>7 DEF FadeInv
<1>5. CASE ~(fades[i].step + 1 < Steps)
  <2> DEFINE f == [fades[i] EXCEPT !.st = "over"]
             q == [kind |-> "set", id |-> i]
  <2>1. fades' = [fades EXCEPT ![i] = f] /\ queue' = Append(queue, q) /\ active' = Nobody /\ level' = level
    BY <1>2, <1>5 DEF Tick, Stopped
  <2>2. f \in FadeRecord /\ f.st = "over" /\ f.target = fades[i].target
    BY <1>2 DEF FadeRecord, FadeStages
  <2>3. q \in RequestRecord /\ q.kind = "set" /\ q.id = i
    BY DEF RequestRecord
  <2> HIDE DEF f, q
  <2>4. fades' \in [Ids -> FadeRecord] /\ fades'[i] = f /\ \A j \in Ids : j # i => fades'[j] = fades[j]
    BY <1>1, <2>1, <2>2, FadeMoves
  <2>5. /\ queue' \in Seq(RequestRecord) /\ Len(queue') = Len(queue) + 1 /\ queue'[Len(queue) + 1] = q
        /\ \A n \in 1..Len(queue) : queue'[n] = queue[n]
    BY <1>1, <2>1, <2>3, QueuedLast
  <2>6. FadeTypeOK'
    BY <1>1, <1>2, <2>1, <2>4, <2>5 DEF FadeTypeOK, FadeRecord, RequestRecord
  <2>7. OneMoves'
    BY <1>1, <1>2, <2>1, <2>2, <2>4, FadeAssumption DEF OneMoves
  <2>8. \A n \in 1..Len(queue') : n = Len(queue) + 1 \/ n \in 1..Len(queue)
    BY <1>3, <2>5
  <2>9. Queued'
    <3>1. \A n \in 1..Len(queue') : fades'[queue'[n].id].st = IF queue'[n].kind = "get" THEN "reading" ELSE "over"
      BY <1>1, <1>3, <2>2, <2>3, <2>4, <2>5, <2>8 DEF Queued
    <3>2. \A n \in 1..Len(queue') : queue'[n].kind = "get" => n \in 1..Len(queue) /\ queue'[n] = queue[n]
      BY <2>3, <2>5, <2>8
    <3>3. QED
      BY <1>1, <3>1, <3>2 DEF Queued
  <2>10. ComesToRest'
    <3> SUFFICES ASSUME told # Nobody PROVE
          /\ \A n \in 1..Len(queue') : LastSet(n)' => fades'[queue'[n].id].target = told
          /\ ~\A n \in 1..Len(queue') : queue'[n].kind # "set"
      BY <1>2, <2>1, FadeAssumption DEF ComesToRest
    <3>1. fades[i].target = told
      BY <1>1, <1>2 DEF ComesToRest
    <3>2. Len(queue) + 1 \in 1..Len(queue') /\ queue'[Len(queue) + 1].kind = "set"
      BY <1>3, <2>3, <2>5
    <3>3. \A n \in 1..Len(queue) : ~LastSet(n)'
      BY <1>3, <3>2 DEF LastSet
    <3>4. \A n \in 1..Len(queue') : LastSet(n)' => queue'[n] = q
      BY <2>5, <2>8, <3>3
    <3>5. fades'[q.id].target = told
      BY <2>2, <2>3, <2>4, <3>1
    <3>6. QED
      BY <3>2, <3>4, <3>5
  <2>11. QED
    BY <2>6, <2>7, <2>9, <2>10 DEF FadeInv
<1>6. QED
  BY <1>4, <1>5

(* A hand on the fader: it was told nothing that still holds. *)
LEMMA FadeTouched ==
    ASSUME FadeInv, Hand(Floor)
    PROVE  FadeInv'
<1>1. FadeTypeOK /\ OneMoves /\ Queued
  BY DEF FadeInv
<1>2. FadeTypeOK'
  BY <1>1, FadeAssumption DEF FadeTypeOK, Hand
<1>3. OneMoves'
  BY <1>1 DEF OneMoves, Hand
<1>4. Queued'
  BY <1>1 DEF Queued, Hand
<1>5. ComesToRest'
  BY DEF ComesToRest, Hand
<1>6. QED
  BY <1>2, <1>3, <1>4, <1>5 DEF FadeInv

LEMMA FadeGoesOn == FadeInv /\ [FadeNext]_fadeVars => FadeInv'
<1> SUFFICES ASSUME FadeInv, [FadeNext]_fadeVars PROVE FadeInv'
  OBVIOUS
<1>0. FadeTypeOK
  BY DEF FadeInv
<1>1. CASE \E i \in Ids : Resume(i)
  BY <1>1, FadeResumes
<1>2. CASE \E i \in Ids : StepFails(i)
  <2>1. PICK i \in Ids : StepFails(i)
    BY <1>2
  <2>2. /\ active = i /\ active' = Nobody /\ told' = Nobody /\ mishaps' = mishaps + 1
        /\ fades' = [fades EXCEPT ![i].st = "over"] /\ UNCHANGED <<level, queue>>
    BY <2>1 DEF StepFails
  <2>3. mishaps' \in Nat
    BY <1>0, <2>2 DEF FadeTypeOK
  <2>4. QED
    BY <2>2, <2>3, FadeStops
<1>3. CASE \E i \in Ids, a \in Asked : AskFade(i, a)
  BY <1>3, FadeAsked
<1>4. CASE \E i \in Ids, v \in Floor..Top : Tick(i, v)
  BY <1>4, FadeTicks
<1>5. CASE Answered \/ Unanswered
  BY <1>5, FadeHeard
<1>6. CASE CancelFade
  <2>1. active \in Ids /\ mishaps' \in Nat
    BY <1>0, <1>6 DEF FadeTypeOK, CancelFade
  <2>2. PICK i \in Ids : active = i
    BY <2>1
  <2>3. active' = Nobody /\ told' = Nobody /\ fades' = [fades EXCEPT ![i].st = "over"] /\ UNCHANGED <<level, queue>>
    BY <1>6, <2>2 DEF CancelFade
  <2>4. QED
    BY <2>1, <2>2, <2>3, FadeStops
<1>7. CASE Hand(Floor)
  BY <1>7, FadeTouched
<1>8. CASE UNCHANGED fadeVars
  BY <1>8 DEF fadeVars, FadeInv, FadeTypeOK, OneMoves, Queued, ComesToRest, LastSet
<1>9. QED
  BY <1>1, <1>2, <1>3, <1>4, <1>5, <1>6, <1>7, <1>8 DEF FadeNext

(* Type correctness of the fades: the queue to the console holds requests  *)
(* of this fader's fades only, and a timer belongs to one of them.         *)
THEOREM FadeTypes == FadeSpec => []FadeTypeOK
<1>1. FadeInv => FadeTypeOK
  BY DEF FadeInv
<1>2. QED
  BY <1>1, FadeBegins, FadeGoesOn, PTL DEF FadeSpec

(* For any number of fades, levels and timer ticks: once nothing moves the *)
(* fader and nothing is on its way to the console, it rests where the      *)
(* latest fade was to bring it (startFade() and its timer).                *)
THEOREM RestsAsTold == FadeSpec => []RestsWhereTold
<1>1. FadeInv => RestsWhereTold
  <2>1. ASSUME FadeInv, queue = <<>> PROVE \A n \in 1..Len(queue) : queue[n].kind # "set"
    BY <2>1
  <2>2. QED
    BY <2>1 DEF FadeInv, ComesToRest, RestsWhereTold
<1>2. QED
  BY <1>1, FadeBegins, FadeGoesOn, PTL DEF FadeSpec

-----------------------------------------------------------------------------
(* The operations of many calls. *)

GainStep == FindSource \/ ReadTrim \/ ZeroTrim \/ RestoreTrim
            \/ \E v \in Values : GainPass(v, TRUE) \/ GainPass(v, FALSE) \/ TrimPass(v)
GateStep == GateSample \/ GateSettle
CompressStep == TurnOn \/ Settle \/ Balance
                \/ (\E r \in {"better", "worse", "flat", "there"}, s \in {1, -1} : Search(r, s))
                \/ \E v \in Values : SetControl(v) \/ Makeup(v)
TransferStep == TransferWrite \/ ReadBack \/ TransferDone
LoadStep == NextSlot \/ Section \/ SlotDone

LEMMA WorkIsByOperation ==
    Work => GainStep \/ GateStep \/ CompressStep \/ TransferStep \/ LoadStep
  BY DEF Work, GainStep, GateStep, CompressStep, TransferStep, LoadStep

(* Each operation moves itself on, and no other. *)
LEMMA StepsAreOwn ==
    /\ GainStep => op = "gain" /\ op' = op
    /\ GateStep => op = "gate" /\ op' = op
    /\ CompressStep => op = "compress" /\ op' = op
    /\ TransferStep => op = "transfer" /\ op' = op
    /\ LoadStep => op = "load" /\ op' = op
<1>1. GainStep => op = "gain" /\ op' = op
  BY DEF GainStep, FindSource, ReadTrim, ZeroTrim, RestoreTrim, GainPass, TrimPass, At, Goto, Throw, Answer
<1>2. GateStep => op = "gate" /\ op' = op
  BY DEF GateStep, GateSample, GateSettle, At, Goto, Throw, Answer
<1>3. CompressStep => op = "compress" /\ op' = op
  BY DEF CompressStep, TurnOn, Settle, Balance, Search, SetControl, Makeup, At, Goto, Throw, Answer
<1>4. TransferStep => op = "transfer" /\ op' = op
  BY DEF TransferStep, TransferWrite, ReadBack, TransferDone, At, Throw, Answer
<1>5. LoadStep => op = "load" /\ op' = op
  BY DEF LoadStep, NextSlot, Section, SlotDone, At, Answer
<1>6. QED
  BY <1>1, <1>2, <1>3, <1>4, <1>5

(* An operation begins where nothing has been cancelled or written. *)
LEMMA StartIsFirst ==
    Start => /\ op = "none" /\ stage' \in {"source", "sample", "search", "set", "balance", "write", "slot"}
             /\ op' \in {"gain", "gate", "compress", "transfer", "load"}
             /\ before' = desk /\ UNCHANGED <<desk, cancelled, trouble, report, claim, since, late>>
  BY DEF Start, StartGain, StartGate, StartCompress, StartTransfer, StartLoad, Begin

(* What the cancellation leaves to write: nothing but what is exempt.  The *)
(* makeup gain is written only where no cancellation can come any more.    *)
LateInv ==
    /\ ~late
    /\ cancelled => op \in {"gate", "compress"}
    /\ op = "compress" /\ cancelled => stage # "makeup"

LEMMA WriteIsLate ==
    ASSUME ~late, NEW s, NEW r, Bulk(s, r), ~cancelled \/ stage \in {"search", "set"}
    PROVE  ~late'
  BY DEF Bulk

LEMMA LateGoesOn == LateInv /\ [Next]_vars => LateInv'
<1> SUFFICES ASSUME LateInv, [Next]_vars PROVE LateInv'
  OBVIOUS
<1>0. ~late /\ (cancelled => op \in {"gate", "compress"}) /\ (op = "compress" /\ cancelled => stage # "makeup")
  BY DEF LateInv
<1>1. CASE Start
  BY <1>0, <1>1, StartIsFirst DEF LateInv
<1>2. CASE Work /\ UNCHANGED <<cancelled, before>>
  <2> USE <1>0, <1>2
  <2>1. CASE GainStep
    <3>1. ~cancelled /\ op' = op /\ op # "compress"
      BY <2>1, StepsAreOwn
    <3>2. ~late'
      <4>1. (\E s, r : Bulk(s, r)) \/ late' = late
        BY <2>1 DEF GainStep, FindSource, ReadTrim, ZeroTrim, RestoreTrim, GainPass, TrimPass, Still, Fails
      <4>2. QED
        BY <3>1, <4>1, WriteIsLate
    <3>3. QED
      BY <3>1, <3>2 DEF LateInv
  <2>2. CASE GateStep
    <3>1. op' = op /\ op = "gate"
      BY <2>2, StepsAreOwn
    <3>2. ~late'
      <4>1. (~cancelled /\ \E s, r : Bulk(s, r)) \/ late' = late
        BY <2>2 DEF GateStep, GateSample, GateSettle, Still, Fails
      <4>2. QED
        BY <4>1, WriteIsLate
    <3>3. QED
      BY <3>1, <3>2 DEF LateInv
  <2>3. CASE CompressStep
    <3>1. op' = op /\ op = "compress"
      BY <2>3, StepsAreOwn
    <3>2. ~late'
      <4>1. \/ late' = late
            \/ (~cancelled \/ stage \in {"search", "set"}) /\ \E s, r : Bulk(s, r)
        <5>1. CASE TurnOn \/ Settle \/ Balance
          BY <5>1 DEF TurnOn, Settle, Balance, At, Still, Fails
        <5>2. CASE \E r \in {"better", "worse", "flat", "there"}, s \in {1, -1} : Search(r, s)
          BY <5>2 DEF Search, Still, Fails
        <5>3. CASE \E v \in Values : SetControl(v) \/ Makeup(v)
          BY <3>1, <5>3 DEF SetControl, Makeup, At
        <5>4. QED
          BY <2>3, <5>1, <5>2, <5>3 DEF CompressStep
      <4>2. QED
        BY <4>1, WriteIsLate
    <3>3. cancelled => stage' # "makeup"
      <4>1. CASE TurnOn \/ Settle \/ Balance
        BY <4>1 DEF TurnOn, Settle, Balance, Goto, Throw, Answer
      <4>2. CASE \E r \in {"better", "worse", "flat", "there"}, s \in {1, -1} : Search(r, s)
        BY <4>2 DEF Search, Goto, Throw, Answer
      <4>3. CASE \E v \in Values : SetControl(v) \/ Makeup(v)
        BY <4>3 DEF SetControl, Makeup, Goto, Throw, Answer
      <4>4. QED
        BY <2>3, <4>1, <4>2, <4>3 DEF CompressStep
    <3>4. QED
      BY <3>1, <3>2, <3>3 DEF LateInv
  <2>4. CASE TransferStep
    <3>1. ~cancelled /\ op' = op /\ op # "compress"
      BY <2>4, StepsAreOwn
    <3>2. (\E s, r : Bulk(s, r)) \/ late' = late
      BY <2>4 DEF TransferStep, TransferWrite, ReadBack, TransferDone, Still, Fails
    <3>3. QED
      BY <3>1, <3>2, WriteIsLate DEF LateInv
  <2>5. CASE LoadStep
    <3>1. ~cancelled /\ op' = op /\ op # "compress"
      BY <2>5, StepsAreOwn
    <3>2. (\E s, r : Bulk(s, r)) \/ late' = late
      BY <2>5 DEF LoadStep, NextSlot, Section, SlotDone, Still
    <3>3. QED
      BY <3>1, <3>2, WriteIsLate DEF LateInv
  <2>6. QED
    BY <2>1, <2>2, <2>3, <2>4, <2>5, WorkIsByOperation
<1>3. CASE Cancel
  BY <1>0, <1>3 DEF Cancel, LateInv, job
<1>4. CASE \E l \in {"A", "trim", "thr"}, v \in {1} : Meddle(l, v)
  BY <1>0, <1>4 DEF Meddle, LateInv, job
<1>5. CASE UNCHANGED vars
  BY <1>0, <1>5 DEF vars, LateInv, job
<1>6. QED
  BY <1>1, <1>2, <1>3, <1>4, <1>5 DEF Next

(* Wherever the cancellation of an automatic gate or compressor falls, the *)
(* write under way is the last one, but for the write that turns the slot  *)
(* on or sets its control (the opts.signal checks of runAutoGate() and     *)
(* runAutoCompress()).                                                     *)
THEOREM CancellationStops == Spec => []CancelledStops
<1>1. Init => LateInv
  BY DEF Init, LateInv
<1>2. LateInv => CancelledStops
  BY DEF LateInv, CancelledStops
<1>3. QED
  BY <1>1, <1>2, LateGoesOn, PTL DEF Spec

(* A write changes the leaves it names, or none of them. *)
LEMMA WriteOver ==
    ASSUME DOMAIN desk = Leaves, NEW s, DOMAIN s \subseteq Leaves, NEW r, Bulk(s, r)
    PROVE  /\ DOMAIN desk' = Leaves
           /\ \A l \in Leaves \ DOMAIN s : desk'[l] = desk[l]
           /\ \A l \in Leaves : desk'[l] = desk[l] \/ (l \in DOMAIN s /\ desk'[l] = s[l])
           /\ r = "ok" => since' = since /\ \A l \in DOMAIN s : desk'[l] = s[l]
           /\ r = "refused" => since' = since /\ desk' = desk
           /\ r = "thrown" => since' = since \cup DOMAIN s
           /\ r \in Results
<1>1. DOMAIN (s @@ desk) = Leaves
  BY DEF @@
<1>2. \A l \in Leaves : (s @@ desk)[l] = IF l \in DOMAIN s THEN s[l] ELSE desk[l]
  BY DEF @@
<1>3. /\ r \in Results /\ desk' \in {desk, s @@ desk}
      /\ r = "ok" => since' = since /\ desk' = s @@ desk
      /\ r = "refused" => since' = since /\ desk' = desk
      /\ r = "thrown" => since' = since \cup DOMAIN s
  BY DEF Bulk, Results
<1>4. QED
  BY <1>1, <1>2, <1>3

LEMMA OneLeaf == \A l, v : DOMAIN (l :> v) = {l} /\ (l :> v)[l] = v
  BY DEF :>

LEMMA WriteOneLeaf ==
    ASSUME DOMAIN desk = Leaves, NEW l \in Leaves, NEW v, NEW r, Bulk(l :> v, r)
    PROVE  /\ DOMAIN desk' = Leaves /\ r \in Results
           /\ \A k \in Leaves \ {l} : desk'[k] = desk[k]
           /\ r = "ok" => since' = since /\ desk'[l] = v
           /\ r = "refused" => since' = since /\ desk' = desk
           /\ r = "thrown" => since' = since \cup {l}
<1> DEFINE s == l :> v
<1>1. DOMAIN s = {l} /\ s[l] = v /\ Bulk(s, r)
  BY OneLeaf
<1> HIDE DEF s
<1>2. DOMAIN s \subseteq Leaves
  BY <1>1
<1>3. QED
  BY <1>1, <1>2, WriteOver

TrimIs(v) == "trim" \in since \/ desk["trim"] = v

(* While the trim may be away from where it was, its value is remembered,  *)
(* or the pass that was to follow has been made.                           *)
TrimInv ==
    /\ op \in {"none", "gain"} => DOMAIN desk = Leaves
    /\ op = "gain" =>
          /\ DOMAIN mem = {"mode", "trim", "done"}
          /\ stage \in {"source", "trim", "zero", "gainpass", "restore", "trimpass", "over"}
          /\ stage \in {"source", "trim"} => TrimIs(before["trim"])
          /\ stage \in {"trimpass", "over"} => mem.done \/ TrimIs(before["trim"])
          /\ stage \in {"zero", "gainpass", "restore"} => "trim" \in since \/ mem.trim = before["trim"]

LEMMA TrimOutOfReach == op' \notin {"none", "gain"} => TrimInv'
  BY DEF TrimInv

LEMMA GainGoesOn ==
    ASSUME TrimInv, GainStep, before' = before
    PROVE  TrimInv'
<1>1. op = "gain" /\ op' = "gain"
  BY StepsAreOwn
<1>2. /\ DOMAIN desk = Leaves /\ DOMAIN mem = {"mode", "trim", "done"}
      /\ stage \in {"source", "trim", "zero", "gainpass", "restore", "trimpass", "over"}
      /\ stage \in {"source", "trim"} => TrimIs(before["trim"])
      /\ stage \in {"trimpass", "over"} => mem.done \/ TrimIs(before["trim"])
      /\ stage \in {"zero", "gainpass", "restore"} => "trim" \in since \/ mem.trim = before["trim"]
  BY <1>1 DEF TrimInv
<1>l. "trim" \in Leaves /\ "preamp" \in Leaves /\ "trim" # "preamp"
  BY DEF Leaves
<1>3. CASE FindSource
  <2>1. /\ stage = "source" /\ UNCHANGED <<desk, since, mem>> /\ stage' \in {"trim", "over", "trimpass"}
    BY <1>3 DEF FindSource, At, Still, Goto, Throw, Answer
  <2>2. TrimIs(before["trim"])' <=> TrimIs(before["trim"])
    BY <2>1 DEF TrimIs
  <2>3. QED
    BY <1>1, <1>2, <2>1, <2>2 DEF TrimInv
<1>4. CASE ReadTrim
  <2>1. stage = "trim" /\ UNCHANGED <<desk, since>>
    BY <1>4 DEF ReadTrim, At, Still, Fails
  <2>2. TrimIs(before["trim"])' <=> TrimIs(before["trim"])
    BY <2>1 DEF TrimIs
  <2>3. CASE mem' = [mem EXCEPT !.trim = desk["trim"]] /\ stage' = "zero"
    <3>1. DOMAIN mem' = {"mode", "trim", "done"} /\ mem'.trim = desk["trim"]
      BY <1>2, <2>3
    <3>3. "trim" \in since' \/ mem'.trim = before["trim"]
      BY <1>2, <2>1, <3>1 DEF TrimIs
    <3>4. QED
      BY <1>1, <1>2, <2>1, <2>3, <3>1, <3>3 DEF TrimInv
  <2>4. CASE mem' = mem /\ stage' = "over"
    BY <1>1, <1>2, <2>1, <2>2, <2>4 DEF TrimInv
  <2>5. QED
    BY <1>4, <2>3, <2>4 DEF ReadTrim, Goto, Throw, Answer
<1>5. CASE ZeroTrim
  <2>1. PICK r : /\ stage = "zero" /\ mem' = mem /\ Bulk("trim" :> 0, r)
                 /\ stage' = IF r = "thrown" THEN "over" ELSE "gainpass"
    BY <1>5 DEF ZeroTrim, At, Goto, Throw, Answer
  <2>2. /\ DOMAIN desk' = Leaves
        /\ r = "thrown" => since' = since \cup {"trim"}
        /\ r # "thrown" => since' = since
    BY <1>2, <1>l, <2>1, WriteOneLeaf DEF Results
  <2>3. CASE r = "thrown"
    BY <1>1, <1>2, <2>1, <2>2, <2>3 DEF TrimInv, TrimIs
  <2>4. CASE r # "thrown"
    BY <1>1, <1>2, <2>1, <2>2, <2>4 DEF TrimInv, TrimIs
  <2>5. QED
    BY <2>3, <2>4
<1>6. CASE RestoreTrim
  <2>1. stage = "restore" /\ mem' = mem /\ stage' = "over"
    BY <1>6 DEF RestoreTrim, At, Throw, Answer
  <2>2. DOMAIN desk' = Leaves /\ TrimIs(before["trim"])'
    <3>1. CASE Bulk("trim" :> mem.trim, "ok")
      <4>1. DOMAIN desk' = Leaves /\ since' = since /\ desk'["trim"] = mem.trim
        BY <1>2, <1>l, <3>1, WriteOneLeaf
      <4>2. QED
        BY <1>2, <2>1, <4>1 DEF TrimIs
    <3>2. CASE since' = since \cup {"trim"} /\ desk' = desk
      BY <1>2, <3>2 DEF TrimIs
    <3>3. QED
      BY <1>6, <3>1, <3>2 DEF RestoreTrim
  <2>3. QED
    BY <1>1, <1>2, <2>1, <2>2 DEF TrimInv
<1>7. ASSUME NEW v, NEW c, GainPass(v, c) PROVE TrimInv'
  <2>1. stage = "gainpass"
    BY <1>7 DEF GainPass, At
  <2>2. CASE Fails /\ Goto("restore") /\ UNCHANGED mem
    BY <1>1, <1>2, <2>1, <2>2 DEF TrimInv, Fails, Goto
  <2>3. ASSUME NEW r \in Results, Bulk("preamp" :> v, r), mem' = [mem EXCEPT !.done = r # "thrown"],
               stage' \in (IF r = "thrown" THEN {"restore"} ELSE {"trimpass", "over"})
        PROVE TrimInv'
    <3>1. DOMAIN mem' = {"mode", "trim", "done"} /\ mem'.trim = mem.trim
      BY <1>2, <2>3
    <3>2. mem'.done = (r # "thrown")
      BY <1>2, <2>3, Zenon
    <3>3. DOMAIN desk' = Leaves /\ (r = "thrown" => since' = since \cup {"preamp"}) /\ (r # "thrown" => since' = since)
      BY <1>2, <1>l, <2>3, WriteOneLeaf DEF Results
    <3>4. CASE r = "thrown"
      BY <1>1, <1>2, <2>1, <2>3, <3>1, <3>3, <3>4 DEF TrimInv
    <3>5. CASE r # "thrown"
      <4>1. mem'.done
        BY <3>2, <3>5, Zenon
      <4>2. stage' \in {"trimpass", "over"}
        BY <2>3, <3>5
      <4>3. QED
        BY <1>1, <1>2, <3>1, <3>3, <4>1, <4>2 DEF TrimInv
    <3>6. QED
      BY <3>4, <3>5
  <2>4. QED
    BY <1>7, <2>2, <2>3 DEF GainPass, Goto, Answer
<1>8. ASSUME NEW v, TrimPass(v) PROVE TrimInv'
  <2>1. stage = "trimpass" /\ stage' = "over"
    BY <1>8 DEF TrimPass, At, Throw, Answer
  <2>2. CASE Fails /\ UNCHANGED mem
    <3>1. UNCHANGED <<desk, since>>
      BY <2>2 DEF Fails
    <3>2. TrimIs(before["trim"])' <=> TrimIs(before["trim"])
      BY <3>1 DEF TrimIs
    <3>3. QED
      BY <1>1, <1>2, <2>1, <2>2, <3>1, <3>2 DEF TrimInv
  <2>3. ASSUME NEW r, Bulk("trim" :> v, r), mem' = [mem EXCEPT !.done = TRUE] PROVE TrimInv'
    <3>1. DOMAIN mem' = {"mode", "trim", "done"}
      BY <1>2, <2>3
    <3>2. mem'.done = TRUE
      BY <1>2, <2>3, Zenon
    <3>3. DOMAIN desk' = Leaves
      BY <1>2, <1>l, <2>3, WriteOneLeaf
    <3>4. QED
      BY <1>1, <2>1, <3>1, <3>2, <3>3 DEF TrimInv
  <2>4. QED
    BY <1>8, <2>2, <2>3 DEF TrimPass
<1>9. QED
  BY <1>3, <1>4, <1>5, <1>6, <1>7, <1>8 DEF GainStep

LEMMA TrimGoesOn == TrimInv /\ [Next]_vars => TrimInv'
<1> SUFFICES ASSUME TrimInv, [Next]_vars PROVE TrimInv'
  OBVIOUS
<1>1. CASE Start
  <2>1. CASE StartGain
    <3>1. PICK m : /\ stage' = "source" /\ mem' = [mode |-> m, trim |-> 0, done |-> FALSE] /\ before' = desk
                   /\ op = "none" /\ op' = "gain" /\ UNCHANGED <<desk, since>>
      BY <2>1 DEF StartGain, Begin
    <3>2. DOMAIN desk = Leaves
      BY <3>1 DEF TrimInv
    <3>3. TrimIs(before["trim"])'
      BY <3>1 DEF TrimIs
    <3>4. QED
      BY <3>1, <3>2, <3>3 DEF TrimInv
  <2>2. CASE StartGate \/ StartCompress \/ StartTransfer \/ StartLoad
    BY <2>2, TrimOutOfReach DEF StartGate, StartCompress, StartTransfer, StartLoad, Begin
  <2>3. QED
    BY <1>1, <2>1, <2>2 DEF Start
<1>2. CASE Work /\ UNCHANGED <<cancelled, before>>
  BY <1>2, WorkIsByOperation, StepsAreOwn, GainGoesOn, TrimOutOfReach
<1>3. CASE Cancel
  BY <1>3, TrimOutOfReach DEF Cancel, job
<1>4. ASSUME NEW l \in {"A", "trim", "thr"}, NEW v, Meddle(l, v) PROVE TrimInv'
  <2>1. /\ UNCHANGED <<op, stage, mem, before>> /\ op # "none"
        /\ desk' = [desk EXCEPT ![l] = v] /\ since' = since \cup {l}
    BY <1>4 DEF Meddle, job
  <2>2. CASE op = "gain"
    <3>1. DOMAIN desk = Leaves /\ DOMAIN desk' = Leaves
      BY <2>1, <2>2 DEF TrimInv
    <3>2. TrimIs(before["trim"]) => TrimIs(before["trim"])'
      BY <2>1, <3>1 DEF TrimIs, Leaves
    <3>3. QED
      BY <2>1, <2>2, <3>1, <3>2 DEF TrimInv
  <2>3. QED
    BY <2>1, <2>2, TrimOutOfReach
<1>5. CASE UNCHANGED vars
  <2>1. UNCHANGED <<op, stage, mem, before, desk, since>>
    BY <1>5 DEF vars, job
  <2>2. TrimIs(before["trim"])' <=> TrimIs(before["trim"])
    BY <2>1 DEF TrimIs
  <2>3. QED
    BY <2>1, <2>2 DEF TrimInv
<1>6. QED
  BY <1>1, <1>2, <1>3, <1>4, <1>5 DEF Next

(* However an automatic gain that could not set the preamplifier ends, the *)
(* trim it zeroed is back where it was, unless the console refused that,   *)
(* gave no answer, or somebody else moved it (runCombinedAutoGain()).      *)
THEOREM TrimIsRestored == Spec => []TrimComesBack
<1>1. Init => TrimInv
  BY JobAssumption DEF Init, TrimInv
<1>2. TrimInv => TrimComesBack
  BY DEF TrimInv, TrimComesBack, TrimIs
<1>3. QED
  BY <1>1, <1>2, TrimGoesOn, PTL DEF Spec

(* What an answer claims, where nobody else wrote and no write went         *)
(* unanswered.                                                             *)
HeldBy(f, d, by) == \A l \in DOMAIN f \ by : d[l] = f[l]

(* A write beside it leaves it standing; one that the console takes adds    *)
(* to it, where it says what it wrote.                                     *)
LEMMA StandsBeside ==
    ASSUME DOMAIN desk = Leaves, NEW s, DOMAIN s \subseteq Leaves, NEW r, Bulk(s, r),
           NEW f, DOMAIN f \subseteq Leaves, DOMAIN f \cap DOMAIN s = {}, HeldBy(f, desk, since)
    PROVE  HeldBy(f, desk', since')
<1>1. since \subseteq since' /\ \A l \in Leaves \ DOMAIN s : desk'[l] = desk[l]
  BY WriteOver DEF Results
<1>2. QED
  BY <1>1 DEF HeldBy

LEMMA TakenIsHeld ==
    ASSUME DOMAIN desk = Leaves, NEW s, DOMAIN s \subseteq Leaves, Bulk(s, "ok"),
           NEW f, DOMAIN f \subseteq Leaves, HeldBy(f, desk, since),
           NEW g, DOMAIN g \subseteq DOMAIN s, DOMAIN f \cap DOMAIN s \subseteq DOMAIN g,
           \A l \in DOMAIN g : g[l] = s[l]
    PROVE  HeldBy(g @@ f, desk', since')
<1>1. since' = since /\ (\A l \in DOMAIN s : desk'[l] = s[l]) /\ \A l \in Leaves \ DOMAIN s : desk'[l] = desk[l]
  BY WriteOver DEF Results
<1>2. DOMAIN (g @@ f) = DOMAIN g \cup DOMAIN f
  BY DEF @@
<1>3. \A l \in DOMAIN g \cup DOMAIN f : (g @@ f)[l] = IF l \in DOMAIN g THEN g[l] ELSE f[l]
  BY DEF @@
<1>4. QED
  BY <1>1, <1>2, <1>3 DEF HeldBy

LEMMA HandsOff ==
    ASSUME DOMAIN desk = Leaves, NEW k, NEW v, desk' = [desk EXCEPT ![k] = v], since' = since \cup {k},
           NEW f, DOMAIN f \subseteq Leaves, HeldBy(f, desk, since)
    PROVE  HeldBy(f, desk', since')
  BY DEF HeldBy

LEMMA NoneIsEmpty == DOMAIN None = {} /\ \A d, by : HeldBy(None, d, by)
<1>1. DOMAIN None = {}
  BY DEF None
<1>2. QED
  BY <1>1 DEF HeldBy

Other(l) == IF l = "A" THEN "B" ELSE "A"

(* An entry of a copy's or swap's plan: its strip's contents come from what *)
(* the other strip held, and mutes touch no contents.                      *)
Fine(w, b) ==
    /\ w.kind \in {"mute", "strip", "check"} /\ DOMAIN w.set \subseteq Leaves
    /\ w.kind = "mute" => "A" \notin DOMAIN w.set /\ "B" \notin DOMAIN w.set
    /\ \A l \in DOMAIN w.set \cap {"A", "B"} : w.set[l] = b[Other(l)]

AllFine(t, b) == \E S : t \in Seq(S) /\ \A w \in S : Fine(w, b)

(* What one strip becomes. *)
StripPlan(p) ==
    \/ DOMAIN p = {"A", "muteA"} /\ p["A"] = desk["B"]
    \/ DOMAIN p = {"B", "muteB"} /\ p["B"] = desk["A"]

LEMMA PlanIs ==
    ASSUME NEW mode \in {"copy", "swap"}
    PROVE  \E n \in {1, 2} : /\ Len(Plan(mode)) = n /\ DOMAIN Plan(mode) = 1..n
                             /\ \A i \in 1..n : StripPlan(Plan(mode)[i])
<1>1. PICK pa, pb : /\ pa = ("A" :> desk["B"]) @@ ("muteA" :> desk["muteB"])
                    /\ pb = ("B" :> desk["A"]) @@ ("muteB" :> desk["muteA"])
  OBVIOUS
<1>2. DOMAIN pa = {"A", "muteA"} /\ pa["A"] = desk["B"]
  BY <1>1 DEF @@, :>
<1>3. DOMAIN pb = {"B", "muteB"} /\ pb["B"] = desk["A"]
  BY <1>1 DEF @@, :>
<1>4. StripPlan(pa) /\ StripPlan(pb)
  BY <1>2, <1>3 DEF StripPlan
<1>5. CASE mode = "copy"
  <2>1. Plan(mode) = <<pb>>
    BY <1>1, <1>5 DEF Plan
  <2>2. QED
    BY <1>4, <2>1
<1>6. CASE mode = "swap"
  <2>1. Plan(mode) = <<pa, pb>>
    BY <1>1, <1>6 DEF Plan
  <2>2. QED
    BY <1>4, <2>1
<1>7. QED
  BY <1>5, <1>6

LEMMA FineEntry ==
    ASSUME NEW s, NEW k \in {"mute", "strip", "check"}, NEW b, DOMAIN s \subseteq Leaves,
           k = "mute" => "A" \notin DOMAIN s /\ "B" \notin DOMAIN s,
           \A l \in DOMAIN s \cap {"A", "B"} : s[l] = b[Other(l)]
    PROVE  Fine(Write(s, k), b)
  BY DEF Fine, Write

LEMMA EntriesAreFine ==
    ASSUME NEW p, StripPlan(p), NEW md \in BOOLEAN, NEW k \in {"strip", "check"}, NEW v
    PROVE  /\ Fine(Write(Mute(Base(p)) :> v, "mute"), desk)
           /\ Fine(Write(Unmuted(p, md), k), desk)
<1>1. Base(p) \in {"A", "B"} /\ Base(p) \in DOMAIN p /\ p[Base(p)] = desk[Other(Base(p))]
      /\ DOMAIN p = {Base(p), Mute(Base(p))}
  BY DEF StripPlan, Base, Mute, Other
<1>2. PICK b \in {"A", "B"} : b = Base(p)
  BY <1>1
<1>3. Fine(Write(Mute(b) :> v, "mute"), desk)
  <2>1. DOMAIN (Mute(b) :> v) = {Mute(b)} /\ Mute(b) \in {"muteA", "muteB"}
    BY OneLeaf DEF Mute
  <2>2. DOMAIN (Mute(b) :> v) \subseteq Leaves \ {"A", "B"}
    BY <2>1 DEF Leaves
  <2>3. QED
    BY <2>2, FineEntry
<1>4. Fine(Write(b :> p[b], k), desk)
  <2>1. DOMAIN (b :> p[b]) = {b} /\ (b :> p[b])[b] = desk[Other(b)]
    BY <1>1, <1>2, OneLeaf
  <2>2. DOMAIN (b :> p[b]) \subseteq Leaves
    BY <2>1 DEF Leaves
  <2>3. QED
    BY <2>1, <2>2, FineEntry
<1>5. Fine(Write(p, k), desk)
  <2>1. DOMAIN p = {b, Mute(b)} /\ p[b] = desk[Other(b)]
    BY <1>1, <1>2
  <2>2. QED
    BY <2>1 DEF Fine, Write, Leaves, Mute
<1>6. QED
  BY <1>2, <1>3, <1>4, <1>5 DEF Unmuted

LEMMA TransferIsFine ==
    ASSUME NEW mode \in {"copy", "swap"}, NEW md \in BOOLEAN, NEW refs \in BOOLEAN
    PROVE  AllFine(Transfer(mode, md, refs), desk)
<1>0. PICK plan : plan = Plan(mode)
  OBVIOUS
<1>1. PICK n \in {1, 2} : Len(plan) = n /\ DOMAIN plan = 1..n /\ \A i \in 1..n : StripPlan(plan[i])
  BY <1>0, PlanIs
<1> DEFINE S == {MutesOn(plan)[i] : i \in 1..n} \cup {MutesSettled(plan)[i] : i \in 1..n}
                \cup {StripWrites(plan, md)[i] : i \in 1..2 * n}
                \cup {Write("sidechain" :> 1 - desk["sidechain"], "mute")}
<1>2. MutesOn(plan) \in Seq(S)
  BY <1>1, SeqDef DEF MutesOn
<1>3. MutesSettled(plan) \in Seq(S)
  BY <1>1, SeqDef DEF MutesSettled
<1>4. StripWrites(plan, md) \in Seq(S)
  <2>1. StripWrites(plan, md) \in [1..2 * n -> S]
    BY <1>1 DEF StripWrites
  <2>2. 2 * n \in Nat
    BY <1>1
  <2>3. QED
    BY <2>1, <2>2, SeqDef
<1>5. <<Write("sidechain" :> 1 - desk["sidechain"], "mute")>> \in Seq(S)
  OBVIOUS
<1>6. \A i \in 1..n : Fine(MutesOn(plan)[i], desk) /\ Fine(MutesSettled(plan)[i], desk)
  BY <1>1, EntriesAreFine DEF MutesOn, MutesSettled
<1>7. \A i \in 1..2 * n : Fine(StripWrites(plan, md)[i], desk)
  <2> SUFFICES ASSUME NEW i \in 1..2 * n PROVE Fine(StripWrites(plan, md)[i], desk)
    OBVIOUS
  <2>1. (i + 1) \div 2 \in 1..n
    BY <1>1
  <2>2. PICK j \in 1..n, k \in {"strip", "check"} : StripWrites(plan, md)[i] = Write(Unmuted(plan[j], md), k)
    BY <1>1, <2>1 DEF StripWrites
  <2>3. QED
    BY <1>1, <2>2, EntriesAreFine
<1>8. Fine(Write("sidechain" :> 1 - desk["sidechain"], "mute"), desk)
  <2>0. PICK x : x = "sidechain" :> 1 - desk["sidechain"]
    OBVIOUS
  <2>1. DOMAIN x = {"sidechain"}
    BY <2>0, OneLeaf
  <2>2. DOMAIN x \subseteq Leaves \ {"A", "B"}
    BY <2>1 DEF Leaves
  <2>3. Fine(Write(x, "mute"), desk)
    BY <2>2, FineEntry
  <2>4. QED
    BY <2>0, <2>3
<1>9. \A w \in S : Fine(w, desk)
  BY <1>6, <1>7, <1>8
<1>10. <<>> \in Seq(S)
  BY EmptySeq
<1> HIDE DEF S
<1>11. Transfer(mode, md, refs) \in Seq(S)
  <2>1. \A s, t : s \in Seq(S) /\ t \in Seq(S) => s \o t \in Seq(S)
    BY ConcatProperties
  <2>2. QED
    BY <1>0, <1>2, <1>3, <1>4, <1>5, <1>10, <2>1 DEF Transfer
<1>12. QED
  BY <1>9, <1>11 DEF AllFine

(* A copy or swap under way or ended: what it claims is from the other      *)
(* strip, and is there unless a write was refused.                         *)
TransferInv ==
    /\ DOMAIN mem = {"ok"} /\ stage \in {"write", "over"}
    /\ DOMAIN claim \subseteq {"A", "B"} /\ \A l \in DOMAIN claim : claim[l] = before[Other(l)]
    /\ mem.ok => HeldBy(claim, desk, since)
    /\ report = "ok" => HeldBy(claim, desk, since)
    /\ stage = "write" => AllFine(todo, before) /\ report = "none"

(* Leaves of the slots that are still to be loaded, and of the sections     *)
(* that this slot has left.                                                *)
LeftOver(l) == \E i \in DOMAIN mem.slots : \E j \in DOMAIN mem.slots[i] : l \in DOMAIN mem.slots[i][j]
Coming(l) == \E n \in DOMAIN todo : l \in DOMAIN todo[n].set
SectionWrites == [set : Sections, kind : {"section"}]

(* A preset being loaded: what slots that went well put there is still      *)
(* there, and so is what this slot has put there unless a section was       *)
(* refused; what is to come touches neither.                               *)
LoadInv ==
    /\ DOMAIN mem = {"slots", "ok", "applied"} /\ stage \in {"slot", "section", "over"}
    /\ mem.slots \in Seq(Seq(Sections))
    /\ \A i, k \in DOMAIN mem.slots : \A j \in DOMAIN mem.slots[i], n \in DOMAIN mem.slots[k] :
          i # k => DOMAIN mem.slots[i][j] \cap DOMAIN mem.slots[k][n] = {}
    /\ DOMAIN claim \subseteq Leaves /\ HeldBy(claim, desk, since)
    /\ \A l \in DOMAIN claim : ~LeftOver(l)
    /\ stage = "section" =>
          /\ todo \in Seq(SectionWrites)
          /\ DOMAIN mem.applied \subseteq Leaves
          /\ mem.ok => HeldBy(mem.applied, desk, since)
          /\ \A l \in DOMAIN claim : ~Coming(l) /\ l \notin DOMAIN mem.applied
          /\ \A l : Coming(l) \/ l \in DOMAIN mem.applied => ~LeftOver(l)

ReportsInv ==
    /\ DOMAIN desk = Leaves
    /\ op = "none" => claim = None /\ report = "none"
    /\ op \notin {"none", "transfer", "load"} => DOMAIN claim = {}
    /\ op = "transfer" => TransferInv
    /\ op = "load" => LoadInv

LEMMA TransferBegins ==
    ASSUME ReportsInv, StartTransfer
    PROVE  ReportsInv'
<1>1. PICK mode \in {"copy", "swap"}, md \in BOOLEAN, refs \in BOOLEAN :
        todo' = Transfer(mode, md, refs)
  BY DEF StartTransfer
<1>2. /\ op = "none" /\ op' = "transfer" /\ stage' = "write" /\ before' = desk /\ mem' = [ok |-> TRUE]
      /\ UNCHANGED <<desk, report, claim, since>>
  BY DEF StartTransfer
<1>3. claim = None /\ report = "none" /\ DOMAIN desk = Leaves
  BY <1>2 DEF ReportsInv
<1>4. AllFine(todo', before')
  BY <1>1, <1>2, TransferIsFine
<1>5. HeldBy(claim', desk', since') /\ DOMAIN claim' = {}
  BY <1>2, <1>3, NoneIsEmpty
<1>6. DOMAIN mem' = {"ok"}
  BY <1>2
<1>7. TransferInv'
  BY <1>2, <1>3, <1>4, <1>5, <1>6 DEF TransferInv
<1>8. QED
  BY <1>2, <1>3, <1>7 DEF ReportsInv

LEMMA TransferWrites ==
    ASSUME ReportsInv, TransferWrite, before' = before
    PROVE  ReportsInv'
<1>1. PICK r, w :
         /\ r \in Results /\ w = Head(todo) /\ Bulk(w.set, r)
         /\ mem' = [mem EXCEPT !.ok = @ /\ ~(r = "refused" /\ w.kind = "strip")]
         /\ IF r = "thrown" THEN Throw
            ELSE /\ todo' = Tail(todo)
                 /\ claim' = IF w.kind = "strip" THEN [l \in DOMAIN w.set \cap {"A", "B"} |-> w.set[l]] @@ claim
                                                 ELSE claim
                 /\ UNCHANGED <<op, stage, report>>
  BY DEF TransferWrite
<1>2. op = "transfer" /\ stage = "write" /\ todo # <<>> /\ w.kind # "check" /\ TransferInv /\ DOMAIN desk = Leaves
  BY <1>1 DEF TransferWrite, At, ReportsInv
<1>3. PICK S : todo \in Seq(S) /\ \A x \in S : Fine(x, before)
  BY <1>2 DEF TransferInv, AllFine
<1>4. Fine(w, before) /\ w.kind \in {"mute", "strip"} /\ Tail(todo) \in Seq(S)
  BY <1>1, <1>2, <1>3 DEF Fine
<1>5. DOMAIN mem' = {"ok"}
  BY <1>1, <1>2 DEF TransferInv
<1>6. mem'.ok = (mem.ok /\ ~(r = "refused" /\ w.kind = "strip"))
  <2>1. DOMAIN mem = {"ok"}
    BY <1>2 DEF TransferInv
  <2>2. QED
    BY <1>1, <2>1, Zenon
<1>7. DOMAIN desk' = Leaves
  BY <1>1, <1>2, <1>4, WriteOver DEF Fine
<1>8. CASE r = "thrown"
  <2>1. claim' = None /\ stage' = "over" /\ report' = "error" /\ op' = op
    BY <1>1, <1>8 DEF Throw, Answer
  <2>2. DOMAIN claim' = {} /\ HeldBy(claim', desk', since')
    BY <2>1, NoneIsEmpty
  <2>3. TransferInv'
    BY <1>5, <2>1, <2>2 DEF TransferInv
  <2>4. QED
    BY <1>2, <1>7, <2>1, <2>3 DEF ReportsInv
<1>9. CASE r # "thrown"
  <2>1. /\ todo' = Tail(todo) /\ UNCHANGED <<op, stage, report>>
        /\ claim' = IF w.kind = "strip" THEN [l \in DOMAIN w.set \cap {"A", "B"} |-> w.set[l]] @@ claim
                                        ELSE claim
    BY <1>1, <1>9
  <2>2. AllFine(todo', before') /\ report' = "none"
    BY <1>2, <1>3, <1>4, <2>1 DEF AllFine, TransferInv
  <2>3. CASE w.kind = "mute"
    <3>1. claim' = claim /\ DOMAIN claim \cap DOMAIN w.set = {} /\ DOMAIN claim \subseteq Leaves /\ DOMAIN w.set \subseteq Leaves
      BY <1>2, <1>4, <2>1, <2>3 DEF TransferInv, Fine, Leaves
    <3>2. HeldBy(claim, desk, since) => HeldBy(claim, desk', since')
      BY <1>1, <1>2, <3>1, StandsBeside
    <3>3. mem'.ok => mem.ok
      BY <1>6, Zenon
    <3>4. TransferInv'
      BY <1>2, <1>5, <2>1, <2>2, <3>1, <3>2, <3>3 DEF TransferInv
    <3>5. QED
      BY <1>2, <1>7, <2>1, <3>4 DEF ReportsInv
  <2>4. CASE w.kind = "strip"
    <3> DEFINE g == [l \in DOMAIN w.set \cap {"A", "B"} |-> w.set[l]]
    <3>1. claim' = g @@ claim
      BY <2>1, <2>4
    <3>2. DOMAIN g = DOMAIN w.set \cap {"A", "B"} /\ \A l \in DOMAIN g : g[l] = w.set[l]
      OBVIOUS
    <3> HIDE DEF g
    <3>3. DOMAIN claim' = DOMAIN g \cup DOMAIN claim
      BY <3>1 DEF @@
    <3>4. \A l \in DOMAIN claim' : claim'[l] = IF l \in DOMAIN g THEN g[l] ELSE claim[l]
      BY <3>1 DEF @@
    <3>5. DOMAIN claim \subseteq {"A", "B"} /\ (\A l \in DOMAIN claim : claim[l] = before[Other(l)])
          /\ DOMAIN w.set \subseteq Leaves
      BY <1>2, <1>4 DEF TransferInv, Fine
    <3>6. DOMAIN claim' \subseteq {"A", "B"} /\ \A l \in DOMAIN claim' : claim'[l] = before[Other(l)]
      BY <1>4, <3>2, <3>3, <3>4, <3>5 DEF Fine
    <3>7. mem'.ok => mem.ok /\ r # "refused"
      BY <1>6, <2>4, Zenon
    <3>8. mem'.ok => HeldBy(claim', desk', since')
      <4>1. SUFFICES ASSUME mem.ok, r = "ok" PROVE HeldBy(g @@ claim, desk', since')
        BY <1>1, <1>9, <3>1, <3>7 DEF Results
      <4>2. HeldBy(claim, desk, since)
        BY <1>2, <4>1 DEF TransferInv
      <4>3. Bulk(w.set, "ok")
        BY <1>1, <4>1
      <4>4. DOMAIN claim \subseteq Leaves /\ DOMAIN g \subseteq DOMAIN w.set /\ DOMAIN claim \cap DOMAIN w.set \subseteq DOMAIN g
        BY <3>2, <3>5 DEF Leaves
      <4>5. QED
        BY <1>2, <3>2, <3>5, <4>2, <4>3, <4>4, TakenIsHeld
    <3>9. TransferInv'
      BY <1>2, <1>5, <2>1, <2>2, <3>6, <3>8 DEF TransferInv
    <3>10. QED
      BY <1>2, <1>7, <2>1, <3>9 DEF ReportsInv
  <2>5. QED
    BY <1>4, <2>3, <2>4
<1>10. QED
  BY <1>8, <1>9

LEMMA TransferGoesOn ==
    ASSUME ReportsInv, TransferStep, before' = before
    PROVE  ReportsInv'
<1>1. op = "transfer" /\ op' = "transfer" /\ TransferInv /\ DOMAIN desk = Leaves
  BY StepsAreOwn DEF ReportsInv
<1>2. CASE TransferWrite
  BY <1>2, TransferWrites
<1>3. CASE ReadBack
  <2>1. stage = "write" /\ todo # <<>> /\ UNCHANGED <<desk, since>>
    BY <1>3 DEF ReadBack, At, Still, Fails
  <2>2. CASE Throw /\ UNCHANGED mem
    <3>1. claim' = None /\ stage' = "over" /\ report' = "error" /\ mem' = mem
      BY <2>2 DEF Throw, Answer
    <3>2. DOMAIN claim' = {} /\ HeldBy(claim', desk', since')
      BY <3>1, NoneIsEmpty
    <3>3. TransferInv'
      BY <1>1, <3>1, <3>2 DEF TransferInv
    <3>4. QED
      BY <1>1, <2>1, <3>3 DEF ReportsInv
  <2>3. ASSUME NEW X, todo' = Tail(todo), UNCHANGED <<stage, report, claim>>, mem' = [mem EXCEPT !.ok = @ /\ X]
        PROVE  ReportsInv'
    <3>1. DOMAIN mem = {"ok"} /\ DOMAIN mem' = {"ok"}
      BY <1>1, <2>3 DEF TransferInv
    <3>2. mem'.ok = (mem.ok /\ X)
      BY <2>3, <3>1, Zenon
    <3>3. mem'.ok => mem.ok
      BY <3>2, Zenon
    <3>4. PICK S : todo \in Seq(S) /\ \A x \in S : Fine(x, before)
      BY <1>1, <2>1 DEF TransferInv, AllFine
    <3>5. todo' \in Seq(S)
      BY <2>1, <2>3, <3>4
    <3>6. AllFine(todo', before')
      BY <3>4, <3>5 DEF AllFine
    <3>7. TransferInv'
      BY <1>1, <2>1, <2>3, <3>1, <3>3, <3>6 DEF TransferInv
    <3>8. QED
      BY <1>1, <2>1, <3>7 DEF ReportsInv
  <2>4. QED
    BY <1>3, <2>2, <2>3 DEF ReadBack
<1>4. CASE TransferDone
  <2>1. /\ UNCHANGED <<desk, since, mem>> /\ stage' = "over"
        /\ report' = IF mem.ok THEN "ok" ELSE "error"
        /\ claim' = IF mem.ok THEN claim ELSE None
    BY <1>4 DEF TransferDone, Still, Answer
  <2>2. CASE mem.ok
    BY <1>1, <2>1, <2>2 DEF TransferInv, ReportsInv
  <2>3. CASE ~mem.ok
    <3>1. DOMAIN claim' = {} /\ HeldBy(claim', desk', since')
      BY <2>1, <2>3, NoneIsEmpty
    <3>2. TransferInv'
      BY <1>1, <2>1, <2>3, <3>1 DEF TransferInv
    <3>3. QED
      BY <1>1, <2>1, <3>2 DEF ReportsInv
  <2>4. QED
    BY <2>2, <2>3
<1>5. QED
  BY <1>2, <1>3, <1>4 DEF TransferStep

LEMMA SectionsAssignLeaves == \A s \in Sections : DOMAIN s \subseteq Leaves
  BY DEF Sections

LEMMA LoadBegins ==
    ASSUME ReportsInv, StartLoad
    PROVE  ReportsInv'
<1>1. PICK p \in Presets : mem' = [slots |-> p, ok |-> TRUE, applied |-> None]
  BY DEF StartLoad, Begin
<1>2. op = "none" /\ op' = "load" /\ stage' = "slot" /\ UNCHANGED <<desk, report, claim, since>>
  BY DEF StartLoad, Begin
<1>3. claim = None /\ DOMAIN desk = Leaves
  BY <1>2 DEF ReportsInv
<1>4. DOMAIN mem' = {"slots", "ok", "applied"} /\ mem'.slots = p
  BY <1>1
<1>5. p \in Seq(Seq(Sections))
      /\ \A i, k \in DOMAIN p : \A j \in DOMAIN p[i], n \in DOMAIN p[k] : i # k => DOMAIN p[i][j] \cap DOMAIN p[k][n] = {}
  BY JobAssumption
<1>6. DOMAIN claim' = {} /\ HeldBy(claim', desk', since')
  BY <1>2, <1>3, NoneIsEmpty
<1>7. LoadInv'
  BY <1>2, <1>4, <1>5, <1>6 DEF LoadInv
<1>8. QED
  BY <1>2, <1>3, <1>7 DEF ReportsInv

LEMMA SlotIsNext ==
    ASSUME ReportsInv, NextSlot, before' = before
    PROVE  ReportsInv'
<1>1. op = "load" /\ op' = "load" /\ stage = "slot" /\ LoadInv /\ DOMAIN desk = Leaves /\ UNCHANGED <<desk, since>>
  BY DEF NextSlot, At, Still, Answer, ReportsInv
<1>2. CASE mem.slots = <<>>
  <2>1. stage' = "over" /\ claim' = claim /\ mem' = mem
    BY <1>2 DEF NextSlot, Answer
  <2>2. LoadInv'
    BY <1>1, <2>1 DEF LoadInv, LeftOver
  <2>3. QED
    BY <1>1, <2>2 DEF ReportsInv
<1>3. CASE mem.slots # <<>>
  <2>1. PICK sl, hd : sl = mem.slots /\ hd = Head(sl)
    OBVIOUS
  <2>2. /\ todo' = [i \in DOMAIN hd |-> Write(hd[i], "section")]
        /\ mem' = [mem EXCEPT !.slots = Tail(@), !.ok = TRUE, !.applied = None]
        /\ stage' = "section" /\ claim' = claim
    BY <1>3, <2>1 DEF NextSlot
  <2>3. DOMAIN mem = {"slots", "ok", "applied"}
    BY <1>1 DEF LoadInv
  <2>4. DOMAIN mem' = {"slots", "ok", "applied"} /\ mem'.slots = Tail(sl) /\ mem'.applied = None
    BY <2>1, <2>2, <2>3
  <2>5. sl \in Seq(Seq(Sections)) /\ sl # <<>>
    BY <1>1, <1>3, <2>1 DEF LoadInv
  <2>6. hd \in Seq(Sections) /\ hd = sl[1] /\ 1 \in DOMAIN sl /\ Tail(sl) \in Seq(Seq(Sections)) /\ Len(sl) \in Nat
        /\ DOMAIN Tail(sl) = 1..Len(sl) - 1 /\ DOMAIN sl = 1..Len(sl)
    BY <2>1, <2>5
  <2>7. \A i \in DOMAIN Tail(sl) : i + 1 \in DOMAIN sl /\ i + 1 # 1 /\ Tail(sl)[i] = sl[i + 1]
    BY <2>5, <2>6
  <2>8. \A i, k \in DOMAIN sl : \A j \in DOMAIN sl[i], n \in DOMAIN sl[k] :
            i # k => DOMAIN sl[i][j] \cap DOMAIN sl[k][n] = {}
    BY <1>1, <2>1 DEF LoadInv
  <2>9. \A i, k \in DOMAIN Tail(sl) : \A j \in DOMAIN Tail(sl)[i], n \in DOMAIN Tail(sl)[k] :
            i # k => DOMAIN Tail(sl)[i][j] \cap DOMAIN Tail(sl)[k][n] = {}
    <3> SUFFICES ASSUME NEW i \in DOMAIN Tail(sl), NEW k \in DOMAIN Tail(sl), NEW j \in DOMAIN Tail(sl)[i],
                        NEW n \in DOMAIN Tail(sl)[k], i # k
                 PROVE  DOMAIN Tail(sl)[i][j] \cap DOMAIN Tail(sl)[k][n] = {}
      OBVIOUS
    <3>1. PICK x \in DOMAIN sl : x = i + 1 /\ Tail(sl)[i] = sl[x]
      BY <2>7
    <3>2. PICK y \in DOMAIN sl : y = k + 1 /\ Tail(sl)[k] = sl[y]
      BY <2>7
    <3>3. x # y
      BY <2>6, <3>1, <3>2
    <3>4. QED
      BY <2>8, <3>1, <3>2, <3>3
  <2>10. todo' \in Seq(SectionWrites) /\ DOMAIN todo' = DOMAIN hd /\ \A i \in DOMAIN hd : todo'[i].set = hd[i]
    <3>1. \A i \in DOMAIN hd : hd[i] \in Sections
      BY <2>6
    <3>2. PICK n \in Nat : DOMAIN hd = 1..n
      BY <2>6
    <3>3. todo' \in [1..n -> SectionWrites]
      BY <2>2, <3>1, <3>2 DEF Write, SectionWrites
    <3>4. QED
      BY <2>2, <3>2, <3>3, SeqDef DEF Write
  <2>11. \A l : Coming(l)' => LeftOver(l)
    BY <2>1, <2>6, <2>10 DEF Coming, LeftOver
  <2>12. \A l : LeftOver(l)' => LeftOver(l)
    <3> SUFFICES ASSUME NEW l, NEW i \in DOMAIN Tail(sl), NEW j \in DOMAIN Tail(sl)[i], l \in DOMAIN Tail(sl)[i][j]
                 PROVE  LeftOver(l)
      BY <2>4 DEF LeftOver
    <3>1. PICK x \in DOMAIN sl : Tail(sl)[i] = sl[x]
      BY <2>7
    <3>2. QED
      BY <2>1, <3>1 DEF LeftOver
  <2>13. \A l : Coming(l)' => ~LeftOver(l)'
    <3> SUFFICES ASSUME NEW l, NEW m \in DOMAIN hd, l \in DOMAIN hd[m],
                        NEW i \in DOMAIN Tail(sl), NEW j \in DOMAIN Tail(sl)[i], l \in DOMAIN Tail(sl)[i][j]
                 PROVE  FALSE
      BY <2>4, <2>10 DEF Coming, LeftOver
    <3>1. PICK x \in DOMAIN sl : x # 1 /\ Tail(sl)[i] = sl[x]
      BY <2>7
    <3>2. DOMAIN sl[1][m] \cap DOMAIN sl[x][j] = {}
      BY <2>6, <2>8, <3>1
    <3>3. QED
      BY <2>6, <3>1, <3>2
  <2>14. DOMAIN mem'.applied = {} /\ HeldBy(mem'.applied, desk', since')
    BY <2>4, NoneIsEmpty
  <2>15. \A l \in DOMAIN claim : ~LeftOver(l)
    BY <1>1 DEF LoadInv
  <2>16. DOMAIN claim \subseteq Leaves /\ HeldBy(claim, desk', since')
    BY <1>1 DEF LoadInv
  <2>17. LoadInv'
    <3>1. /\ mem'.slots \in Seq(Seq(Sections))
          /\ \A i, k \in DOMAIN mem'.slots : \A j \in DOMAIN mem'.slots[i], n \in DOMAIN mem'.slots[k] :
                i # k => DOMAIN mem'.slots[i][j] \cap DOMAIN mem'.slots[k][n] = {}
      BY <2>4, <2>6, <2>9
    <3>2. \A l \in DOMAIN claim' : ~LeftOver(l)' /\ ~Coming(l)' /\ l \notin DOMAIN mem'.applied
      BY <2>2, <2>11, <2>12, <2>14, <2>15
    <3>3. \A l : Coming(l)' \/ l \in DOMAIN mem'.applied => ~LeftOver(l)'
      BY <2>13, <2>14
    <3>4. DOMAIN claim' \subseteq Leaves /\ HeldBy(claim', desk', since')
      <4>1. claim' = claim /\ desk' = desk /\ since' = since
        BY <1>1, <2>2
      <4>2. QED
        BY <2>16, <4>1
    <3>5. todo' \in Seq(SectionWrites) /\ DOMAIN mem'.applied \subseteq Leaves /\ HeldBy(mem'.applied, desk', since')
      BY <2>10, <2>14
    <3>6. DOMAIN mem' = {"slots", "ok", "applied"} /\ stage' = "section"
      BY <2>2, <2>4
    <3>7. QED
      BY <3>1, <3>2, <3>3, <3>4, <3>5, <3>6 DEF LoadInv
  <2>18. QED
    BY <1>1, <2>17 DEF ReportsInv
<1>4. QED
  BY <1>2, <1>3

LEMMA SectionIsWritten ==
    ASSUME ReportsInv, Section, before' = before
    PROVE  ReportsInv'
<1>1. PICK r, w :
        /\ r \in Results /\ w = Head(todo) /\ Bulk(w.set, r)
        /\ mem' = [mem EXCEPT !.ok = @ /\ r = "ok", !.applied = w.set @@ @]
        /\ IF r = "thrown" THEN \/ Answer("ok", claim)
                                \/ (stage' = "slot" /\ todo' = <<>> /\ UNCHANGED <<op, report, claim>>)
           ELSE todo' = Tail(todo) /\ UNCHANGED <<op, stage, report, claim>>
  BY DEF Section
<1>2. op = "load" /\ stage = "section" /\ todo # <<>> /\ LoadInv /\ DOMAIN desk = Leaves
  BY DEF Section, At, ReportsInv
<1>3. /\ DOMAIN mem = {"slots", "ok", "applied"} /\ todo \in Seq(SectionWrites)
      /\ DOMAIN mem.applied \subseteq Leaves /\ (mem.ok => HeldBy(mem.applied, desk, since))
      /\ (\A l \in DOMAIN claim : ~Coming(l) /\ l \notin DOMAIN mem.applied)
      /\ (\A l : Coming(l) \/ l \in DOMAIN mem.applied => ~LeftOver(l))
      /\ DOMAIN claim \subseteq Leaves /\ HeldBy(claim, desk, since) /\ \A l \in DOMAIN claim : ~LeftOver(l)
  BY <1>2 DEF LoadInv
<1>4. /\ DOMAIN mem' = {"slots", "ok", "applied"} /\ mem'.slots = mem.slots
      /\ mem'.applied = w.set @@ mem.applied
  BY <1>1, <1>3
<1>5. mem'.ok = (mem.ok /\ r = "ok")
  BY <1>1, <1>3, Zenon
<1>6. w \in SectionWrites /\ Tail(todo) \in Seq(SectionWrites) /\ w = todo[1] /\ 1 \in DOMAIN todo
      /\ \A n \in DOMAIN Tail(todo) : n + 1 \in DOMAIN todo /\ Tail(todo)[n] = todo[n + 1]
  <2> HIDE DEF SectionWrites
  <2>1. QED
    BY <1>1, <1>2, <1>3
<1>7. DOMAIN w.set \subseteq Leaves /\ \A l \in DOMAIN w.set : Coming(l)
  BY <1>6, SectionsAssignLeaves DEF SectionWrites, Coming
<1>8. DOMAIN desk' = Leaves /\ HeldBy(claim, desk', since')
  <2>1. DOMAIN claim \cap DOMAIN w.set = {}
    BY <1>3, <1>7
  <2>2. QED
    BY <1>1, <1>2, <1>3, <1>7, <2>1, WriteOver, StandsBeside
<1>9. DOMAIN mem'.applied = DOMAIN w.set \cup DOMAIN mem.applied
  BY <1>4 DEF @@
<1>10. mem'.ok => HeldBy(mem'.applied, desk', since')
  <2>1. mem'.ok => mem.ok /\ r = "ok"
    BY <1>5, Zenon
  <2>2. SUFFICES ASSUME mem.ok, r = "ok" PROVE HeldBy(w.set @@ mem.applied, desk', since')
    BY <1>4, <2>1
  <2>3. Bulk(w.set, "ok") /\ HeldBy(mem.applied, desk, since)
    BY <1>1, <1>3, <2>2
  <2>4. \A l \in DOMAIN w.set : w.set[l] = w.set[l]
    OBVIOUS
  <2>5. QED
    BY <1>2, <1>3, <1>7, <2>3, <2>4, TakenIsHeld
<1>11. op' = "load" /\ stage' \in {"over", "slot", "section"} /\ claim' = claim
       /\ (stage' = "section" => todo' = Tail(todo))
  BY <1>1, <1>2 DEF Answer
<1>12. \A l : LeftOver(l)' <=> LeftOver(l)
  BY <1>4 DEF LeftOver
<1>13. stage' = "section" => \A l : Coming(l)' => Coming(l)
  <2> SUFFICES ASSUME NEW l, NEW n \in DOMAIN Tail(todo), l \in DOMAIN Tail(todo)[n].set
               PROVE  Coming(l)
    BY <1>11 DEF Coming
  <2>1. PICK k \in DOMAIN todo : Tail(todo)[n] = todo[k]
    BY <1>6
  <2>2. QED
    BY <2>1 DEF Coming
<1>14. LoadInv'
  <2>1. /\ mem'.slots \in Seq(Seq(Sections))
        /\ \A i, k \in DOMAIN mem'.slots : \A j \in DOMAIN mem'.slots[i], n \in DOMAIN mem'.slots[k] :
              i # k => DOMAIN mem'.slots[i][j] \cap DOMAIN mem'.slots[k][n] = {}
    BY <1>2, <1>4 DEF LoadInv
  <2>2. \A l \in DOMAIN claim' : ~LeftOver(l)' /\ l \notin DOMAIN mem'.applied
    BY <1>3, <1>7, <1>9, <1>11, <1>12
  <2>3. stage' = "section" => /\ \A l \in DOMAIN claim' : ~Coming(l)'
                              /\ \A l : Coming(l)' \/ l \in DOMAIN mem'.applied => ~LeftOver(l)'
    BY <1>3, <1>7, <1>9, <1>11, <1>12, <1>13
  <2>4. DOMAIN mem'.applied \subseteq Leaves
    BY <1>3, <1>7, <1>9
  <2>5. QED
    BY <1>3, <1>4, <1>6, <1>8, <1>10, <1>11, <2>1, <2>2, <2>3, <2>4 DEF LoadInv
<1>15. QED
  BY <1>8, <1>11, <1>14 DEF ReportsInv

LEMMA SlotIsDone ==
    ASSUME ReportsInv, SlotDone, before' = before
    PROVE  ReportsInv'
<1>1. /\ op = "load" /\ stage = "section" /\ LoadInv /\ DOMAIN desk = Leaves
      /\ UNCHANGED <<desk, since, mem, op, todo, report>> /\ stage' = "slot"
      /\ claim' = IF mem.ok THEN mem.applied @@ claim ELSE claim
  BY DEF SlotDone, At, Still, ReportsInv
<1>2. CASE mem.ok
  <2>1. claim' = mem.applied @@ claim
    BY <1>1, <1>2
  <2>2. DOMAIN claim' = DOMAIN mem.applied \cup DOMAIN claim
    BY <2>1 DEF @@
  <2>3. \A l \in DOMAIN claim' : claim'[l] = IF l \in DOMAIN mem.applied THEN mem.applied[l] ELSE claim[l]
    BY <2>1 DEF @@
  <2>4. HeldBy(claim', desk', since')
    BY <1>1, <1>2, <2>2, <2>3 DEF LoadInv, HeldBy
  <2>5. \A l \in DOMAIN claim' : ~LeftOver(l)'
    BY <1>1, <2>2 DEF LoadInv, LeftOver
  <2>6. LoadInv'
    BY <1>1, <2>2, <2>4, <2>5 DEF LoadInv
  <2>7. QED
    BY <1>1, <2>6 DEF ReportsInv
<1>3. CASE ~mem.ok
  <2>1. LoadInv'
    BY <1>1, <1>3 DEF LoadInv, LeftOver
  <2>2. QED
    BY <1>1, <2>1 DEF ReportsInv
<1>4. QED
  BY <1>2, <1>3

(* Gain, gate and compressor claim nothing; their writes name leaves. *)
LEMMA OthersClaimNothing ==
    ASSUME DOMAIN desk = Leaves, DOMAIN claim = {}, GainStep \/ GateStep \/ CompressStep
    PROVE  DOMAIN desk' = Leaves /\ DOMAIN claim' = {}
<1>0. DOMAIN None = {}
  BY NoneIsEmpty
<1>l. {"trim", "preamp", "thr", "on", "makeup"} \subseteq Leaves
  BY DEF Leaves
<1>1. ASSUME NEW l \in Leaves, NEW v, NEW r, Bulk(l :> v, r) PROVE DOMAIN desk' = Leaves
  BY <1>1, WriteOneLeaf
<1>2. ASSUME NEW v, NEW r, Bulk(("thr" :> v) @@ ("on" :> 1), r) PROVE DOMAIN desk' = Leaves
  <2>1. PICK s : s = ("thr" :> v) @@ ("on" :> 1)
    OBVIOUS
  <2>2. DOMAIN s = {"thr", "on"}
    BY <2>1 DEF @@, :>
  <2>3. DOMAIN s \subseteq Leaves /\ Bulk(s, r)
    BY <1>2, <1>l, <2>1, <2>2
  <2>4. QED
    BY <2>3, WriteOver
<1>3. CASE GainStep
  <2>1. (\E v, r : Bulk("trim" :> v, r) \/ Bulk("preamp" :> v, r)) \/ desk' = desk
    BY <1>3 DEF GainStep, FindSource, ReadTrim, ZeroTrim, RestoreTrim, GainPass, TrimPass, Still, Fails
  <2>2. claim' \in {claim, None}
    BY <1>3 DEF GainStep, FindSource, ReadTrim, ZeroTrim, RestoreTrim, GainPass, TrimPass, Goto, Throw, Answer
  <2>3. QED
    BY <1>0, <1>1, <1>l, <2>1, <2>2
<1>4. CASE GateStep
  <2>1. (\E r : Bulk(("thr" :> 1) @@ ("on" :> 1), r)) \/ desk' = desk
    BY <1>4 DEF GateStep, GateSample, GateSettle, Still, Fails
  <2>2. claim' \in {claim, None}
    BY <1>4 DEF GateStep, GateSample, GateSettle, Goto, Throw, Answer
  <2>3. QED
    BY <1>0, <1>2, <2>1, <2>2
<1>5. CASE CompressStep
  <2>1. CASE TurnOn
    <3>1. (\E r : Bulk("on" :> 1, r)) \/ desk' = desk
      BY <2>1 DEF TurnOn, Still
    <3>2. claim' \in {claim, None}
      BY <2>1 DEF TurnOn, Goto, Throw, Answer
    <3>3. QED
      BY <1>0, <1>1, <1>l, <3>1, <3>2
  <2>2. CASE Settle \/ Balance
    BY <1>0, <2>2 DEF Settle, Balance, Still, Fails, Goto, Throw, Answer
  <2>3. CASE \E r \in {"better", "worse", "flat", "there"}, s \in {1, -1} : Search(r, s)
    <3>1. (\E v, r : Bulk("thr" :> v, r)) \/ desk' = desk
      BY <2>3 DEF Search, Still, Fails
    <3>2. claim' \in {claim, None}
      BY <2>3 DEF Search, Goto, Throw, Answer
    <3>3. QED
      BY <1>0, <1>1, <1>l, <3>1, <3>2
  <2>4. CASE \E v \in Values : SetControl(v)
    <3>1. \E v, r : Bulk(("thr" :> v) @@ ("on" :> 1), r)
      BY <2>4 DEF SetControl
    <3>2. claim' \in {claim, None}
      BY <2>4 DEF SetControl, Goto, Throw, Answer
    <3>3. QED
      BY <1>0, <1>2, <3>1, <3>2
  <2>5. CASE \E v \in Values : Makeup(v)
    <3>1. \E v, r : Bulk("makeup" :> v, r)
      BY <2>5 DEF Makeup
    <3>2. claim' \in {claim, None}
      BY <2>5 DEF Makeup, Goto, Throw, Answer
    <3>3. QED
      BY <1>0, <1>1, <1>l, <3>1, <3>2
  <2>6. QED
    BY <1>5, <2>1, <2>2, <2>3, <2>4, <2>5 DEF CompressStep
<1>6. QED
  BY <1>3, <1>4, <1>5

LEMMA ReportsGoOn == ReportsInv /\ [Next]_vars => ReportsInv'
<1> SUFFICES ASSUME ReportsInv, [Next]_vars PROVE ReportsInv'
  OBVIOUS
<1>0. DOMAIN desk = Leaves
  BY DEF ReportsInv
<1>1. CASE Start
  <2>1. CASE StartGain \/ StartGate \/ StartCompress
    <3>1. op = "none" /\ op' \in {"gain", "gate", "compress"} /\ UNCHANGED <<desk, claim>>
      BY <2>1 DEF StartGain, StartGate, StartCompress, Begin
    <3>2. QED
      BY <3>1, NoneIsEmpty DEF ReportsInv
  <2>2. QED
    BY <1>1, <2>1, TransferBegins, LoadBegins DEF Start
<1>2. CASE Work /\ UNCHANGED <<cancelled, before>>
  <2>1. CASE GainStep \/ GateStep \/ CompressStep
    <3>1. op \in {"gain", "gate", "compress"} /\ op' = op
      BY <2>1, StepsAreOwn
    <3>2. DOMAIN claim = {}
      BY <3>1 DEF ReportsInv
    <3>3. DOMAIN desk' = Leaves /\ DOMAIN claim' = {}
      BY <1>0, <2>1, <3>2, OthersClaimNothing
    <3>4. QED
      BY <3>1, <3>3 DEF ReportsInv
  <2>2. CASE TransferStep
    BY <1>2, <2>2, TransferGoesOn
  <2>3. CASE LoadStep
    BY <1>2, <2>3, SlotIsNext, SectionIsWritten, SlotIsDone DEF LoadStep
  <2>4. QED
    BY <1>2, <2>1, <2>2, <2>3, WorkIsByOperation
<1>3. CASE Cancel
  <2>1. UNCHANGED <<desk, op, claim>> /\ op \notin {"none", "transfer", "load"}
    BY <1>3 DEF Cancel, job
  <2>2. QED
    BY <2>1 DEF ReportsInv
<1>4. ASSUME NEW l, NEW v, Meddle(l, v) PROVE ReportsInv'
  <2>1. /\ desk' = [desk EXCEPT ![l] = v] /\ since' = since \cup {l}
        /\ UNCHANGED <<op, stage, mem, todo, report, claim, before>> /\ op # "none"
    BY <1>4 DEF Meddle, job
  <2>2. DOMAIN desk' = Leaves
    BY <1>0, <2>1
  <2>3. \A f : DOMAIN f \subseteq Leaves /\ HeldBy(f, desk, since) => HeldBy(f, desk', since')
    BY <1>0, <2>1, HandsOff
  <2>4. op = "transfer" => TransferInv'
    <3>1. SUFFICES ASSUME TransferInv PROVE TransferInv'
      BY DEF ReportsInv
    <3>2. DOMAIN claim \subseteq Leaves
      BY <3>1 DEF TransferInv, Leaves
    <3>3. HeldBy(claim, desk, since) => HeldBy(claim, desk', since')
      BY <2>3, <3>2
    <3>4. QED
      BY <2>1, <3>1, <3>3 DEF TransferInv
  <2>5. op = "load" => LoadInv'
    <3>1. SUFFICES ASSUME LoadInv PROVE LoadInv'
      BY DEF ReportsInv
    <3>2. HeldBy(claim, desk', since')
      BY <2>3, <3>1 DEF LoadInv
    <3>3. stage = "section" /\ mem.ok => HeldBy(mem.applied, desk', since')
      BY <2>3, <3>1 DEF LoadInv
    <3>4. \A k : (LeftOver(k)' <=> LeftOver(k)) /\ (Coming(k)' <=> Coming(k))
      BY <2>1 DEF LeftOver, Coming
    <3>5. QED
      BY <2>1, <3>1, <3>2, <3>3, <3>4 DEF LoadInv
  <2>6. QED
    BY <2>1, <2>2, <2>4, <2>5 DEF ReportsInv
<1>5. CASE UNCHANGED vars
  <2>1. UNCHANGED <<desk, since, op, stage, mem, todo, report, claim, before>>
    BY <1>5 DEF vars, job
  <2>2. \A k : (LeftOver(k)' <=> LeftOver(k)) /\ (Coming(k)' <=> Coming(k))
    BY <2>1 DEF LeftOver, Coming
  <2>3. HeldBy(claim, desk, since)' <=> HeldBy(claim, desk, since)
    BY <2>1
  <2>4. HeldBy(mem.applied, desk, since)' <=> HeldBy(mem.applied, desk, since)
    BY <2>1
  <2>5. TransferInv' <=> TransferInv
    BY <2>1, <2>3 DEF TransferInv
  <2>6. LoadInv' <=> LoadInv
    BY <2>1, <2>2, <2>3, <2>4 DEF LoadInv
  <2>7. QED
    BY <2>1, <2>5, <2>6 DEF ReportsInv
<1>6. QED
  BY <1>1, <1>2, <1>3, <1>4, <1>5 DEF Next

(* An answer that reports ok tells the truth: a copy or swap has put there  *)
(* what the strips held before any write, a preset's slots hold what it     *)
(* has, but for leaves somebody else wrote to or whose write went           *)
(* unanswered (transferChannel(), performPresetLoad()).  It holds for any   *)
(* number of slots and sections that go to strips of their own.            *)
THEOREM ReportsAreTruthful == Spec => []ReportsAreTrue
<1>1. Init => ReportsInv
  BY JobAssumption DEF Init, ReportsInv
<1>2. ReportsInv => ReportsAreTrue
  <2> SUFFICES ASSUME ReportsInv, report = "ok" PROVE
        /\ \A l \in DOMAIN claim \ since : desk[l] = claim[l]
        /\ (op = "transfer" /\ {"A", "B"} \subseteq DOMAIN claim) =>
              \A l \in {"A", "B"} \ since : desk[l] = before[IF l = "A" THEN "B" ELSE "A"]
    BY DEF ReportsAreTrue
  <2>1. CASE op = "transfer"
    BY <2>1 DEF ReportsInv, TransferInv, HeldBy, Other
  <2>2. CASE op = "load"
    BY <2>2 DEF ReportsInv, LoadInv, HeldBy
  <2>3. CASE op \notin {"transfer", "load"}
    BY <2>3 DEF ReportsInv
  <2>4. QED
    BY <2>1, <2>2, <2>3
<1>3. QED
  BY <1>1, <1>2, ReportsGoOn, PTL DEF Spec

-----------------------------------------------------------------------------
(* The automatic EQ. *)

EarlyStages == {"idle", "undo", "checks", "save"}
LateStages == {"borrow", "reference", "prepare", "cut", "on", "resolve", "loaded", "measure",
               "correct", "measured", "handback"}
Others == EqLeaves \ {Rta}

LEMMA LeavesAreOthers ==
    /\ Rta \in EqLeaves
    /\ \A z \in Zones : /\ {Cut(z), NativeOn(z), NativeEq(z), Insert(z), InsertOn(z)} \subseteq Others
                        /\ Cut(z) \notin Switches /\ NativeEq(z) \notin Switches /\ Insert(z) \notin Switches
                        /\ NativeOn(z) \in Switches /\ InsertOn(z) \in Switches
    /\ \A s : Model(s) \notin Switches /\ Bands(s) \notin Switches
    /\ \A s \in FxSlots : Model(s) \in Others /\ Bands(s) \in Others
<1>1. \A z : Rta # Cut(z) /\ Rta # NativeOn(z) /\ Rta # NativeEq(z) /\ Rta # Insert(z) /\ Rta # InsertOn(z)
  BY DEF Rta, Cut, NativeOn, NativeEq, Insert, InsertOn
<1>2. \A s : Rta # Model(s) /\ Rta # Bands(s)
  BY DEF Rta, Model, Bands
<1>3. \A y, z : /\ Cut(z) # NativeOn(y) /\ Cut(z) # InsertOn(y) /\ NativeEq(z) # NativeOn(y)
                /\ NativeEq(z) # InsertOn(y) /\ Insert(z) # NativeOn(y) /\ Insert(z) # InsertOn(y)
                /\ Model(z) # NativeOn(y) /\ Model(z) # InsertOn(y)
                /\ Bands(z) # NativeOn(y) /\ Bands(z) # InsertOn(y)
  BY DEF Cut, NativeOn, NativeEq, Insert, InsertOn, Model, Bands
<1>4. \A z \in Zones : {Cut(z), NativeOn(z), NativeEq(z), Insert(z), InsertOn(z)} \subseteq EqLeaves
  BY DEF EqLeaves
<1>5. \A s \in FxSlots : Model(s) \in EqLeaves /\ Bands(s) \in EqLeaves
  BY DEF EqLeaves
<1>6. Rta \in EqLeaves
  BY DEF EqLeaves
<1>7. \A z \in Zones : /\ Cut(z) \notin Switches /\ NativeEq(z) \notin Switches /\ Insert(z) \notin Switches
                       /\ NativeOn(z) \in Switches /\ InsertOn(z) \in Switches
  BY <1>3 DEF Switches
<1>8. \A s : Model(s) \notin Switches /\ Bands(s) \notin Switches
  BY <1>3 DEF Switches
<1>9. QED
  BY <1>1, <1>2, <1>4, <1>5, <1>6, <1>7, <1>8 DEF Others

(* A switch is off or on, in what is assigned as on the desk. *)
SwitchesIn(f) == \A l \in DOMAIN f \cap Switches : f[l] \in {0, 1}
Assigns(f) == DOMAIN f \subseteq Others /\ SwitchesIn(f)
LogOf(log) == \E S : log \in Seq(S) /\ \A e \in S : Assigns(e)

(* A leaf whose value is not certain, or can be taken from the undo log. *)
Known(l) == l \in eqSince \/ \E n \in 1..Len(undoLog) : l \in DOMAIN undoLog[n]
Current(l, v) == Known(l) \/ eqDesk[l] = v

EqShape ==
    /\ DOMAIN eqDesk = EqLeaves /\ SwitchesIn(eqDesk)
    /\ LogOf(undoLog) /\ LogOf(lastUndoLog)
    /\ pc \in EarlyStages \cup LateStages
    /\ pc \in EarlyStages => undoLog = <<>>

(* The analyser is what it was, or what it was is remembered. *)
RtaInv ==
    /\ pc \in EarlyStages => Rta \in eqSince \/ eqDesk[Rta] = rtaBefore
    /\ pc \in LateStages => Rta \in eqSince \/ saved = rtaBefore

(* The first entry of the log that names a leaf has its value from before   *)
(* the run; a leaf that no entry names still has it.                       *)
Brings(log, desk0, uncertain) ==
    \A l \in Others \ uncertain :
        /\ (\A n \in 1..Len(log) : l \notin DOMAIN log[n]) => eqDesk[l] = desk0[l]
        /\ \A n \in 1..Len(log) :
              l \in DOMAIN log[n] /\ (\A m \in 1..n - 1 : l \notin DOMAIN log[m]) => log[n][l] = desk0[l]

LogInv ==
    /\ undoLog # <<>> => lastUndoLog = undoLog /\ eqSince \subseteq blurred \cup {Rta}
    /\ lastUndoLog # <<>> \/ pc = "undo" => Brings(lastUndoLog, origin, blurred)

EqBase == EqShape /\ RtaInv /\ LogInv

(* What a step leaves of what was read. *)
Keeps == \A l \in Others : \A v : Current(l, v) => Current(l, v)'

LEMMA EntryAppended ==
    ASSUME NEW log, LogOf(log), NEW e, Assigns(e)
    PROVE  /\ LogOf(Append(log, e)) /\ Len(log) \in Nat /\ Len(Append(log, e)) = Len(log) + 1
           /\ Append(log, e)[Len(log) + 1] = e
           /\ \A n \in 1..Len(log) : Append(log, e)[n] = log[n]
           /\ log = <<>> => Len(log) = 0
<1>1. PICK S : log \in Seq(S) /\ \A x \in S : Assigns(x)
  BY DEF LogOf
<1> DEFINE T == S \cup {e}
<1>2. log \in Seq(T) /\ e \in T /\ \A x \in T : Assigns(x)
  BY <1>1, SeqMonotonic
<1> HIDE DEF T
<1>3. Append(log, e) \in Seq(T)
  BY <1>2, AppendProperties
<1>4. QED
  BY <1>2, <1>3, AppendProperties DEF LogOf

(* Nothing is written. *)
LEMMA QuietKeeps ==
    ASSUME EqBase, UNCHANGED <<eqDesk, undoLog, lastUndoLog, history>>, pc' \in EarlyStages \cup LateStages,
           pc' \in EarlyStages => undoLog = <<>>, pc' = "undo" => pc = "undo" \/ lastUndoLog # <<>>,
           \/ pc \in EarlyStages /\ pc' \in EarlyStages
           \/ pc' \in LateStages /\ saved' = (IF pc = "save" THEN eqDesk[Rta] ELSE saved) /\ pc \in LateStages \cup {"save"}
    PROVE  EqBase' /\ Keeps
<1>1. UNCHANGED <<eqDesk, undoLog, lastUndoLog, origin, rtaBefore, eqSince, blurred>>
  BY DEF history
<1>2. EqShape'
  BY <1>1 DEF EqBase, EqShape, LogOf, SwitchesIn
<1>3. RtaInv'
  BY <1>1 DEF EqBase, RtaInv, EarlyStages, LateStages
<1>4. LogInv'
  <2>1. Brings(lastUndoLog, origin, blurred)' <=> Brings(lastUndoLog, origin, blurred)
    BY <1>1 DEF Brings
  <2>2. QED
    BY <1>1, <2>1 DEF EqBase, LogInv
<1>5. Keeps
  BY <1>1 DEF Keeps, Current, Known
<1>6. QED
  BY <1>2, <1>3, <1>4, <1>5 DEF EqBase

(* The analyser is written while the run has it. *)
LEMMA RtaWriteKeeps ==
    ASSUME EqBase, NEW x, eqDesk' \in {eqDesk, (Rta :> x) @@ eqDesk},
           UNCHANGED <<undoLog, lastUndoLog, history>>, pc \in LateStages, pc' \in LateStages, saved' = saved
    PROVE  EqBase' /\ Keeps
<1>0. UNCHANGED <<undoLog, lastUndoLog, origin, rtaBefore, eqSince, blurred>>
  BY DEF history
<1>1. DOMAIN eqDesk' = EqLeaves /\ \A l \in Others : eqDesk'[l] = eqDesk[l]
  <2>1. DOMAIN eqDesk = EqLeaves
    BY DEF EqBase, EqShape
  <2>2. DOMAIN ((Rta :> x) @@ eqDesk) = EqLeaves
    BY <2>1, LeavesAreOthers DEF @@, :>
  <2>3. \A l \in Others : ((Rta :> x) @@ eqDesk)[l] = eqDesk[l]
    BY <2>1 DEF @@, :>, Others
  <2>4. QED
    BY <2>1, <2>2, <2>3
<1>2. SwitchesIn(eqDesk')
  <2>1. Switches \subseteq Others
    <3>1. \A l \in Switches : \E z \in Zones : l = NativeOn(z) \/ l = InsertOn(z)
      BY DEF Switches
    <3>2. QED
      BY <3>1, LeavesAreOthers
  <2>2. SwitchesIn(eqDesk) /\ DOMAIN eqDesk = EqLeaves
    BY DEF EqBase, EqShape
  <2>3. QED
    BY <1>1, <2>1, <2>2 DEF SwitchesIn, Others
<1>3. EqShape'
  BY <1>0, <1>1, <1>2 DEF EqBase, EqShape, LogOf, EarlyStages, LateStages, SwitchesIn
<1>4. RtaInv'
  BY <1>0 DEF EqBase, RtaInv, EarlyStages, LateStages
<1>5. LogInv'
  <2>1. Brings(lastUndoLog, origin, blurred) => Brings(lastUndoLog, origin, blurred)'
    BY <1>0, <1>1 DEF Brings
  <2>2. pc # "undo" /\ pc' # "undo"
    BY DEF LateStages
  <2>3. QED
    BY <1>0, <2>1, <2>2 DEF EqBase, LogInv
<1>6. Keeps
  BY <1>0, <1>1 DEF Keeps, Current, Known
<1>7. QED
  BY <1>3, <1>4, <1>5, <1>6 DEF EqBase

(* A write to some leaves. *)
LEMMA AssignedOver ==
    ASSUME DOMAIN eqDesk = EqLeaves, SwitchesIn(eqDesk), NEW a, Assigns(a)
    PROVE  /\ DOMAIN (a @@ eqDesk) = EqLeaves /\ SwitchesIn(a @@ eqDesk)
           /\ \A l \in EqLeaves \ DOMAIN a : (a @@ eqDesk)[l] = eqDesk[l]
<1>1. DOMAIN a \subseteq EqLeaves
  BY DEF Assigns, Others
<1>2. DOMAIN (a @@ eqDesk) = EqLeaves
  BY <1>1 DEF @@
<1>3. \A l \in EqLeaves : (a @@ eqDesk)[l] = IF l \in DOMAIN a THEN a[l] ELSE eqDesk[l]
  BY <1>1 DEF @@
<1>4. SwitchesIn(a @@ eqDesk)
  BY <1>1, <1>2, <1>3 DEF SwitchesIn, Assigns
<1>5. QED
  BY <1>2, <1>3, <1>4

LEMMA LandedKeeps ==
    ASSUME EqBase, NEW a, NEW b, NEW next \in LateStages, WriteLands(a, b, next), DOMAIN a = DOMAIN b,
           Assigns(a), Assigns(b), \A l \in DOMAIN b : Current(l, b[l]), pc \in LateStages, saved' = saved
    PROVE  EqBase' /\ Keeps /\ \A l \in DOMAIN b : Known(l)'
<1>1. /\ eqDesk' = a @@ eqDesk /\ undoLog' = Append(undoLog, b) /\ lastUndoLog' = undoLog'
      /\ (undoLog = <<>> => origin' = eqDesk /\ blurred' = eqSince)
      /\ (undoLog # <<>> => origin' = origin /\ blurred' = blurred)
      /\ pc' = next /\ rtaBefore' = rtaBefore /\ eqSince' = eqSince
  BY DEF WriteLands
<1>2. DOMAIN eqDesk = EqLeaves /\ SwitchesIn(eqDesk) /\ LogOf(undoLog)
  BY DEF EqBase, EqShape
<1>3. /\ DOMAIN eqDesk' = EqLeaves /\ SwitchesIn(eqDesk')
      /\ \A l \in EqLeaves \ DOMAIN a : eqDesk'[l] = eqDesk[l]
  BY <1>1, <1>2, AssignedOver
<1>4. /\ LogOf(undoLog') /\ Len(undoLog) \in Nat /\ Len(undoLog') = Len(undoLog) + 1
      /\ undoLog'[Len(undoLog) + 1] = b
      /\ (\A n \in 1..Len(undoLog) : undoLog'[n] = undoLog[n])
      /\ (undoLog = <<>> => Len(undoLog) = 0)
  BY <1>1, <1>2, EntryAppended
<1>5. PICK k \in Nat : k = Len(undoLog)
  BY <1>4
<1>6. pc' \notin EarlyStages /\ pc' \in LateStages
  BY <1>1 DEF EarlyStages, LateStages
<1>7. EqShape'
  BY <1>1, <1>3, <1>4, <1>6 DEF EqShape
<1>8. RtaInv'
  BY <1>1, <1>6 DEF EqBase, RtaInv
<1>9. DOMAIN b \subseteq Others
  BY DEF Assigns
<1>10. LogInv'
  <2>1. undoLog # <<>> => lastUndoLog = undoLog /\ eqSince \subseteq blurred \cup {Rta}
    BY DEF EqBase, LogInv
  <2>2. eqSince' \subseteq blurred' \cup {Rta}
    BY <1>1, <2>1
  <2>3. ASSUME NEW l \in Others \ blurred' PROVE ~(l \in eqSince)
    BY <2>2, <2>3, <1>1 DEF Others
  <2>4. ASSUME NEW l \in Others \ blurred', \A n \in 1..k : l \notin DOMAIN undoLog[n] PROVE eqDesk[l] = origin'[l]
    <3>1. CASE undoLog = <<>>
      BY <1>1, <3>1
    <3>2. CASE undoLog # <<>>
      <4>1. Brings(undoLog, origin, blurred)
        BY <2>1, <3>2 DEF EqBase, LogInv
      <4>2. QED
        BY <1>1, <1>5, <2>4, <3>2, <4>1 DEF Brings
    <3>3. QED
      BY <3>1, <3>2
  <2>5. ASSUME NEW l \in Others \ blurred', \A n \in 1..Len(undoLog') : l \notin DOMAIN undoLog'[n]
        PROVE  eqDesk'[l] = origin'[l]
    <3>1. k + 1 \in 1..Len(undoLog') /\ (\A n \in 1..k : n \in 1..Len(undoLog') /\ undoLog'[n] = undoLog[n])
      BY <1>4, <1>5
    <3>2. l \notin DOMAIN b
      BY <1>4, <1>5, <2>5, <3>1
    <3>3. \A n \in 1..k : l \notin DOMAIN undoLog[n]
      BY <2>5, <3>1
    <3>4. QED
      BY <1>3, <2>4, <3>2, <3>3 DEF Others
  <2>6. ASSUME NEW l \in Others \ blurred', NEW n \in 1..Len(undoLog'), l \in DOMAIN undoLog'[n],
               \A m \in 1..n - 1 : l \notin DOMAIN undoLog'[m]
        PROVE  undoLog'[n][l] = origin'[l]
    <3>1. CASE n = k + 1
      <4>1. undoLog'[n] = b /\ \A m \in 1..k : l \notin DOMAIN undoLog[m]
        BY <1>4, <1>5, <2>6, <3>1
      <4>2. eqDesk[l] = origin'[l]
        BY <2>4, <4>1
      <4>3. ~Known(l)
        BY <1>5, <2>3, <4>1 DEF Known
      <4>4. Current(l, b[l])
        BY <2>6, <4>1
      <4>5. QED
        BY <4>1, <4>2, <4>3, <4>4 DEF Current
    <3>2. CASE n # k + 1
      <4>1. n \in 1..k /\ undoLog'[n] = undoLog[n] /\ undoLog # <<>>
        BY <1>4, <1>5, <3>2
      <4>2. \A m \in 1..n - 1 : l \notin DOMAIN undoLog[m]
        <5>1. \A m \in 1..n - 1 : m \in 1..k
          BY <4>1
        <5>2. QED
          BY <1>4, <1>5, <2>6, <5>1
      <4>3. Brings(undoLog, origin, blurred)
        BY <2>1, <4>1 DEF EqBase, LogInv
      <4>4. undoLog[n][l] = origin[l]
        BY <1>1, <1>5, <2>6, <4>1, <4>2, <4>3 DEF Brings
      <4>5. QED
        BY <1>1, <4>1, <4>4
    <3>3. QED
      BY <3>1, <3>2
  <2>7. Brings(lastUndoLog, origin, blurred)'
    BY <1>1, <2>5, <2>6 DEF Brings
  <2>8. QED
    BY <1>1, <2>2, <2>7 DEF LogInv
<1>11. \A l \in DOMAIN b : Known(l)'
  <2>1. Len(undoLog') \in Nat /\ Len(undoLog) + 1 \in 1..Len(undoLog')
    BY <1>4
  <2>2. QED
    BY <1>4, <2>1 DEF Known
<1>12. Keeps
  <2>1. ASSUME NEW l, Known(l) PROVE Known(l)'
    <3>1. \A n \in 1..Len(undoLog) : n \in 1..Len(undoLog') /\ undoLog'[n] = undoLog[n]
      BY <1>4
    <3>2. QED
      BY <1>1, <2>1, <3>1 DEF Known
  <2>2. \A l \in Others : Known(l)' \/ eqDesk'[l] = eqDesk[l]
    BY <1>3, <1>11 DEF Others
  <2>3. QED
    BY <2>1, <2>2 DEF Keeps, Current
<1>13. QED
  BY <1>7, <1>8, <1>10, <1>11, <1>12 DEF EqBase

LEMMA FailedKeeps ==
    ASSUME EqBase, NEW a, Assigns(a), WriteFails(a), pc \in LateStages, saved' = saved
    PROVE  EqBase' /\ Keeps /\ pc' = "handback"
<1>1. /\ \/ UNCHANGED <<eqDesk, eqSince, blurred>>
         \/ eqDesk' = a @@ eqDesk /\ eqSince' = eqSince \cup DOMAIN a /\ blurred' = blurred \cup DOMAIN a
      /\ pc' = "handback" /\ UNCHANGED <<undoLog, lastUndoLog, origin, rtaBefore>>
  BY DEF WriteFails, Uncertain
<1>2. DOMAIN eqDesk = EqLeaves /\ SwitchesIn(eqDesk) /\ LogOf(undoLog) /\ LogOf(lastUndoLog)
  BY DEF EqBase, EqShape
<1>3. /\ DOMAIN eqDesk' = EqLeaves /\ SwitchesIn(eqDesk')
      /\ \A l \in EqLeaves : (l \in eqSince' /\ l \in blurred') \/ eqDesk'[l] = eqDesk[l]
      /\ eqSince \subseteq eqSince' /\ blurred \subseteq blurred'
      /\ (eqSince \subseteq blurred \cup {Rta} => eqSince' \subseteq blurred' \cup {Rta})
  <2>1. CASE UNCHANGED <<eqDesk, eqSince, blurred>>
    BY <1>2, <2>1 DEF SwitchesIn
  <2>2. CASE eqDesk' = a @@ eqDesk /\ eqSince' = eqSince \cup DOMAIN a /\ blurred' = blurred \cup DOMAIN a
    <3>1. /\ DOMAIN eqDesk' = EqLeaves /\ SwitchesIn(eqDesk')
          /\ \A l \in EqLeaves \ DOMAIN a : eqDesk'[l] = eqDesk[l]
      BY <1>2, <2>2, AssignedOver
    <3>2. QED
      BY <2>2, <3>1
  <2>3. QED
    BY <1>1, <2>1, <2>2
<1>4. pc' \notin EarlyStages /\ pc' \in LateStages
  BY <1>1 DEF EarlyStages, LateStages
<1>5. EqShape'
  BY <1>1, <1>2, <1>3, <1>4 DEF EqShape, LogOf
<1>6. RtaInv'
  BY <1>1, <1>3, <1>4 DEF EqBase, RtaInv
<1>7. LogInv'
  <2>1. Brings(lastUndoLog, origin, blurred) => Brings(lastUndoLog, origin, blurred)'
    BY <1>1, <1>3 DEF Brings, Others
  <2>2. pc # "undo" /\ pc' # "undo"
    BY <1>1 DEF LateStages
  <2>3. QED
    BY <1>1, <1>3, <2>1, <2>2 DEF EqBase, LogInv
<1>8. Keeps
  BY <1>1, <1>3 DEF Keeps, Current, Known, Others
<1>9. QED
  BY <1>1, <1>5, <1>6, <1>7, <1>8 DEF EqBase

(* Every write of a run: what takes it back is what was read, or an earlier *)
(* entry has it.                                                           *)
LEMMA WriteKeeps ==
    ASSUME EqBase, NEW a, NEW b, NEW next \in LateStages, WriteEq(a, b, next), DOMAIN a = DOMAIN b,
           Assigns(a), Assigns(b), \A l \in DOMAIN b : Current(l, b[l]), pc \in LateStages, saved' = saved
    PROVE  EqBase' /\ Keeps /\ pc' \in {next, "handback"} /\ (pc' # "handback" => \A l \in DOMAIN b : Known(l)')
<1>1. WriteLands(a, b, next) => pc' = next
  BY DEF WriteLands
<1>2. QED
  BY <1>1, LandedKeeps, FailedKeeps DEF WriteEq

(* What a run holds of the strip it is at, and of the EQs it will correct. *)
AtStrip == {"cut", "on", "resolve", "loaded"}
Settled == {"measure", "correct", "measured"}

ReadOK ==
    /\ {"cut", "wasOn", "eq", "peq"} \subseteq DOMAIN read
    /\ Current(NativeEq(zone), read.eq)
    /\ read.wasOn \/ Current(NativeOn(zone), 0)
LoadedOK ==
    /\ read.slot \in FxSlots /\ read.insertWasOn \in {0, 1} /\ Current(Model(read.slot), Geq)
    /\ Current(Insert(zone), NotInserted) /\ Current(InsertOn(zone), read.insertWasOn)
TargetOK(t) ==
    /\ {"leaf", "was"} \subseteq DOMAIN t /\ t.leaf \in Others \ Switches
    /\ req.apply => Current(t.leaf, t.was)

LocalsInv ==
    /\ zone \in Zones /\ DOMAIN target = Zones
    /\ pc \in AtStrip => ReadOK
    /\ pc = "cut" => Current(Cut(zone), read.cut)
    /\ pc = "loaded" => LoadedOK
    /\ pc \in AtStrip \cup {"prepare"} => \A z \in Zones : z < zone => TargetOK(target[z])
    /\ pc \in Settled => \A z \in Zones : TargetOK(target[z])

EqInv == EqBase /\ LocalsInv

LEMMA ZonesAreCounted == 1 \in Zones /\ \A z \in Zones : z \in Nat
<1>1. PICK n \in Nat \ {0} : n = Cardinality(Zones) /\ Zones = 1..n
  BY RequestAssumption
<1>2. \A z : z \in Zones <=> z \in 1..n
  BY <1>1
<1>3. 1 \in 1..n /\ \A z \in 1..n : z \in Nat
  OBVIOUS
<1>4. QED
  BY <1>2, <1>3

(* No strip is being prepared and none is ready. *)
LEMMA NothingHeld ==
    ASSUME LocalsInv, pc' \notin AtStrip \cup Settled \cup {"prepare"}, zone' \in Zones, DOMAIN target' = Zones
    PROVE  LocalsInv'
  BY DEF LocalsInv, AtStrip

LEMMA TargetsKept ==
    ASSUME Keeps, UNCHANGED req, NEW t, TargetOK(t)
    PROVE  TargetOK(t)'
<1>1. {"leaf", "was"} \subseteq DOMAIN t /\ t.leaf \in Others \ Switches
  BY DEF TargetOK
<1>2. CASE req.apply
  <2>1. Current(t.leaf, t.was)
    BY <1>2 DEF TargetOK
  <2>2. Current(t.leaf, t.was)'
    BY <1>1, <2>1 DEF Keeps
  <2>3. QED
    BY <1>1, <2>2 DEF TargetOK
<1>3. CASE ~req.apply
  <2>1. ~req'.apply
    BY <1>3
  <2>2. QED
    BY <1>1, <2>1 DEF TargetOK
<1>4. QED
  BY <1>2, <1>3

(* The same strip, and what was read of it. *)
LEMMA StripKept ==
    ASSUME LocalsInv, Keeps, UNCHANGED <<req, zone, target>>, pc \in AtStrip \cup {"prepare"}, pc' \in AtStrip,
           ReadOK', pc' = "cut" => Current(Cut(zone), read.cut)', pc' = "loaded" => LoadedOK'
    PROVE  LocalsInv'
<1>1. \A z \in Zones : z < zone => TargetOK(target[z])
  BY DEF LocalsInv
<1>2. ASSUME NEW z \in Zones, z < zone' PROVE TargetOK(target[z])'
  <2>1. PICK t : t = target[z]
    OBVIOUS
  <2>2. TargetOK(t)
    BY <1>1, <1>2, <2>1
  <2>3. TargetOK(t)'
    BY <2>2, TargetsKept
  <2>4. target'[z] = t
    BY <2>1
  <2>5. QED
    BY <2>3, <2>4 DEF TargetOK
<1>3. pc' \notin Settled
  BY DEF AtStrip, Settled
<1>4. zone' \in Zones /\ DOMAIN target' = Zones
  BY DEF LocalsInv
<1>5. QED
  BY <1>2, <1>3, <1>4 DEF LocalsInv

(* The EQ of a strip is chosen, and the next strip is next. *)
LEMMA NextStrip ==
    ASSUME LocalsInv, Keeps, UNCHANGED req, pc \in AtStrip, NEW t, TargetOK(t)', Advance(t), pc' = NextStage
    PROVE  LocalsInv'
<1>1. /\ zone \in Zones /\ DOMAIN target = Zones
      /\ \A z \in Zones : z < zone => TargetOK(target[z])
  BY DEF LocalsInv
<1>2. target' = [target EXCEPT ![zone] = t] /\ zone' = IF zone + 1 \in Zones THEN zone + 1 ELSE 1
  BY DEF Advance
<1>3. DOMAIN target' = Zones /\ zone' \in Zones
  BY <1>1, <1>2, ZonesAreCounted
<1>4. ASSUME NEW z \in Zones, z <= zone PROVE TargetOK(target[z])'
  <2>1. CASE z = zone
    <3>1. target'[z] = t
      BY <1>1, <1>2, <2>1
    <3>2. QED
      BY <3>1 DEF TargetOK
  <2>2. CASE z # zone
    <3>1. z < zone
      BY <1>1, <1>4, <2>2, ZonesAreCounted
    <3>2. PICK u : u = target[z]
      OBVIOUS
    <3>3. TargetOK(u)
      BY <1>1, <3>1, <3>2
    <3>4. TargetOK(u)'
      BY <3>3, TargetsKept
    <3>5. target'[z] = u
      BY <1>1, <1>2, <2>2, <3>2
    <3>6. QED
      BY <3>4, <3>5 DEF TargetOK
  <2>3. QED
    BY <2>1, <2>2
<1>5. CASE zone + 1 \in Zones
  <2>1. pc' = "prepare" /\ zone' = zone + 1
    BY <1>2, <1>5 DEF NextStage
  <2>2. \A z \in Zones : z < zone' => z <= zone
    BY <1>1, <2>1, ZonesAreCounted
  <2>3. QED
    BY <1>3, <1>4, <2>1, <2>2 DEF LocalsInv, AtStrip, Settled
<1>6. CASE zone + 1 \notin Zones
  <2>1. pc' = "measure"
    BY <1>6 DEF NextStage
  <2>2. \A z \in Zones : z <= zone
    <3>1. PICK n \in Nat : Zones = 1..n
      BY RequestAssumption
    <3>2. QED
      BY <1>1, <1>6, <3>1
  <2>3. QED
    BY <1>3, <1>4, <2>1, <2>2 DEF LocalsInv, AtStrip, Settled
<1>7. QED
  BY <1>5, <1>6

LEMMA LeafWritten ==
    ASSUME NEW l \in Others, NEW v, l \in Switches => v \in {0, 1}
    PROVE  DOMAIN (l :> v) = {l} /\ (l :> v)[l] = v /\ Assigns(l :> v)
<1>1. DOMAIN (l :> v) = {l} /\ (l :> v)[l] = v
  BY OneLeaf
<1>2. SwitchesIn(l :> v)
  BY <1>1 DEF SwitchesIn
<1>3. DOMAIN (l :> v) \subseteq Others
  BY <1>1
<1>4. QED
  BY <1>1, <1>2, <1>3 DEF Assigns

(* A write to one leaf, whose value was read. *)
LEMMA OneKeeps ==
    ASSUME EqBase, NEW l \in Others, NEW v, NEW w, NEW next \in LateStages, WriteEq(l :> v, l :> w, next),
           l \in Switches => v \in {0, 1} /\ w \in {0, 1}, Current(l, w), pc \in LateStages, saved' = saved
    PROVE  EqBase' /\ Keeps /\ pc' \in {next, "handback"} /\ (pc' # "handback" => Known(l)')
<1>1. PICK a, b : a = l :> v /\ b = l :> w
  OBVIOUS
<1>2. DOMAIN a = {l} /\ Assigns(a) /\ DOMAIN b = {l} /\ b[l] = w /\ Assigns(b)
  BY <1>1, LeafWritten
<1>3. WriteEq(a, b, next)
  BY <1>1
<1>4. QED
  BY <1>2, <1>3, WriteKeeps

LEMMA StartKeeps == ASSUME EqInv, NEW r \in Requests, StartRun(r) PROVE EqInv'
<1>1. /\ pc = "idle" /\ pc' = "checks" /\ undoLog' = <<>> /\ undoLog = <<>>
      /\ rtaBefore' = eqDesk[Rta] /\ eqSince' = {}
      /\ UNCHANGED <<eqDesk, zone, target, saved, lastUndoLog, origin, blurred>>
  BY DEF StartRun, running, EqInv, EqBase, EqShape, EarlyStages
<1>2. EqShape'
  BY <1>1 DEF EqInv, EqBase, EqShape, EarlyStages, LogOf, SwitchesIn
<1>3. RtaInv'
  BY <1>1 DEF RtaInv, LateStages
<1>4. LogInv'
  <2>1. Brings(lastUndoLog, origin, blurred) => Brings(lastUndoLog, origin, blurred)'
    BY <1>1 DEF Brings
  <2>2. QED
    BY <1>1, <2>1 DEF EqInv, EqBase, LogInv
<1>5. LocalsInv'
  BY <1>1, NothingHeld DEF EqInv, LocalsInv, AtStrip, Settled
<1>6. QED
  BY <1>2, <1>3, <1>4, <1>5 DEF EqInv, EqBase

LEMMA ForgetHolds == Forget => zone' \in Zones /\ DOMAIN target' = Zones
  BY ZonesAreCounted DEF Forget, NoLocals

LEMMA ChecksKeep == ASSUME EqInv, Reject \/ DryRun \/ SaveRta PROVE EqInv'
<1>1. zone \in Zones /\ DOMAIN target = Zones /\ EqBase /\ (pc \in EarlyStages => undoLog = <<>>)
  BY DEF EqInv, LocalsInv, EqBase, EqShape
<1>2. /\ UNCHANGED <<eqDesk, undoLog, lastUndoLog, history>>
      /\ (pc = "checks" /\ pc' \in {"idle", "save"}) \/ (pc = "save" /\ pc' = "borrow" /\ saved' = eqDesk[Rta])
      /\ zone' \in Zones /\ DOMAIN target' = Zones
  <2>1. CASE Reject
    BY <2>1, ForgetHolds DEF Reject, Quiet
  <2>2. CASE DryRun
    BY <1>1, <2>2 DEF DryRun, Quiet, run
  <2>3. CASE SaveRta
    BY <1>1, <2>3 DEF SaveRta, Quiet
  <2>4. QED
    BY <2>1, <2>2, <2>3
<1>3. EqBase'
  BY <1>1, <1>2, QuietKeeps DEF EarlyStages, LateStages
<1>4. LocalsInv'
  BY <1>2, NothingHeld DEF EqInv, AtStrip, Settled
<1>5. QED
  BY <1>3, <1>4 DEF EqInv

LEMMA BreakKeeps == ASSUME EqInv, Break PROVE EqInv'
<1>1. /\ UNCHANGED <<eqDesk, undoLog, lastUndoLog, history, zone, target, saved>>
      /\ pc \in LateStages /\ pc' = "handback" /\ pc # "save"
  BY DEF Break, LateStages, run
<1>2. EqBase'
  BY <1>1, QuietKeeps DEF EqInv, EarlyStages, LateStages
<1>3. LocalsInv'
  BY <1>1, NothingHeld DEF EqInv, LocalsInv, AtStrip, Settled
<1>4. QED
  BY <1>2, <1>3 DEF EqInv

(* Nothing of what was read, chosen and told changes. *)
LEMMA LocalsStay ==
    ASSUME LocalsInv, Keeps, UNCHANGED <<req, zone, read, target>>,
           \/ pc' = pc
           \/ pc \in Settled /\ pc' \in Settled
    PROVE  LocalsInv'
<1>1. zone' \in Zones /\ DOMAIN target' = Zones
  BY DEF LocalsInv
<1>2. ASSUME NEW z \in Zones, TargetOK(target[z]) PROVE TargetOK(target[z])'
  <2>1. PICK t : t = target[z]
    OBVIOUS
  <2>2. TargetOK(t)'
    BY <1>2, <2>1, TargetsKept
  <2>3. target'[z] = t
    BY <2>1
  <2>4. QED
    BY <2>2, <2>3 DEF TargetOK
<1>3. ASSUME pc' \in AtStrip PROVE ReadOK'
  <2>1. ReadOK /\ zone \in Zones
    BY <1>3 DEF LocalsInv, AtStrip, Settled
  <2>2. NativeEq(zone) \in Others /\ NativeOn(zone) \in Others
    BY <2>1, LeavesAreOthers
  <2>3. Current(NativeEq(zone), read.eq)'
    BY <2>1, <2>2 DEF Keeps, ReadOK
  <2>4. read.wasOn \/ Current(NativeOn(zone), 0)'
    BY <2>1, <2>2 DEF Keeps, ReadOK
  <2>5. (read.wasOn)' <=> read.wasOn
    OBVIOUS
  <2>6. QED
    BY <2>1, <2>3, <2>4, <2>5 DEF ReadOK
<1>4. ASSUME pc' = "cut" PROVE Current(Cut(zone), read.cut)'
  <2>1. Current(Cut(zone), read.cut) /\ zone \in Zones
    BY <1>4 DEF LocalsInv, Settled
  <2>2. Cut(zone) \in Others
    BY <2>1, LeavesAreOthers
  <2>3. QED
    BY <2>1, <2>2 DEF Keeps
<1>5. ASSUME pc' = "loaded" PROVE LoadedOK'
  <2>1. LoadedOK /\ zone \in Zones
    BY <1>5 DEF LocalsInv, Settled
  <2>2. Model(read.slot) \in Others /\ Insert(zone) \in Others /\ InsertOn(zone) \in Others
    BY <2>1, LeavesAreOthers DEF LoadedOK
  <2>3. QED
    BY <2>1, <2>2 DEF Keeps, LoadedOK
<1>6. pc' \in Settled => \A z \in Zones : TargetOK(target[z])
  BY DEF LocalsInv
<1>7. pc' \in AtStrip \cup {"prepare"} => \A z \in Zones : z < zone => TargetOK(target[z])
  BY DEF LocalsInv, AtStrip, Settled
<1>8. pc' \in AtStrip \cup {"prepare"} => \A z \in Zones : z < zone' => TargetOK(target[z])'
  BY <1>2, <1>7
<1>9. pc' \in Settled => \A z \in Zones : TargetOK(target[z])'
  BY <1>2, <1>6
<1>10. QED
  BY <1>1, <1>3, <1>4, <1>5, <1>8, <1>9 DEF LocalsInv

LEMMA CancelKeeps == ASSUME EqInv, CancelRun PROVE EqInv'
<1>1. UNCHANGED <<eqDesk, undoLog, lastUndoLog, history, pc, saved, req, zone, read, target>>
  BY DEF CancelRun
<1>2. pc \in EarlyStages \cup LateStages /\ (pc \in EarlyStages => undoLog = <<>>) /\ pc # "undo"
  BY DEF EqInv, EqBase, EqShape, CancelRun
<1>3. EqBase' /\ Keeps
  BY <1>1, <1>2, QuietKeeps DEF EqInv, EarlyStages, LateStages
<1>4. QED
  BY <1>1, <1>3, LocalsStay DEF EqInv

(* Measuring. *)
LEMMA MeasuringKeeps == ASSUME EqInv, Borrow \/ Reference \/ Measure PROVE EqInv'
<1>1. /\ UNCHANGED <<undoLog, lastUndoLog, history, saved, req>> /\ pc \in LateStages /\ pc' \in LateStages
      /\ eqDesk' \in {eqDesk, (Rta :> Borrowed) @@ eqDesk}
  BY DEF Borrow, Reference, Measure, run, LateStages
<1>2. EqBase' /\ Keeps
  BY <1>1, RtaWriteKeeps DEF EqInv
<1>3. CASE Borrow
  <2>1. pc' \in {"reference", "handback"} /\ UNCHANGED <<zone, target>>
    BY <1>3 DEF Borrow, run
  <2>2. QED
    BY <1>2, <2>1, NothingHeld DEF EqInv, LocalsInv, AtStrip, Settled
<1>4. CASE Reference
  <2>1. pc' = "prepare" /\ zone' = 1 /\ DOMAIN target' = Zones
    BY <1>4 DEF Reference
  <2>2. \A z \in Zones : ~(z < 1)
    BY RequestAssumption
  <2>3. LocalsInv'
    BY <2>1, <2>2, ZonesAreCounted DEF LocalsInv, AtStrip, Settled
  <2>4. QED
    BY <1>2, <2>3 DEF EqInv
<1>5. CASE Measure
  <2>1. pc = "measure" /\ pc' \in {"correct", "handback"} /\ UNCHANGED <<zone, read, target, req>>
    BY <1>5 DEF Measure, run
  <2>2. CASE pc' = "correct"
    BY <1>2, <2>1, <2>2, LocalsStay DEF EqInv, Settled
  <2>3. CASE pc' = "handback"
    BY <1>2, <2>1, <2>3, NothingHeld DEF EqInv, LocalsInv, AtStrip, Settled
  <2>4. QED
    BY <2>1, <2>2, <2>3
<1>6. QED
  BY <1>3, <1>4, <1>5

LEMMA EndRoundKeeps == ASSUME EqInv, EndRound PROVE EqInv'
<1>1. /\ UNCHANGED <<eqDesk, undoLog, lastUndoLog, history, saved, req, zone, read, target>>
      /\ pc = "measured" /\ pc' \in {"handback", "measure"}
  BY DEF EndRound, Quiet
<1>2. EqBase' /\ Keeps
  BY <1>1, QuietKeeps DEF EqInv, EarlyStages, LateStages
<1>3. CASE pc' = "measure"
  BY <1>1, <1>2, <1>3, LocalsStay DEF EqInv, Settled
<1>4. CASE pc' = "handback"
  BY <1>1, <1>2, <1>4, NothingHeld DEF EqInv, LocalsInv, AtStrip, Settled
<1>5. QED
  BY <1>1, <1>3, <1>4

(* Preparing a strip. *)
LEMMA QuietStep ==
    ASSUME EqInv, NEW next \in LateStages, Quiet(next), pc \in LateStages, saved' = saved
    PROVE  EqBase' /\ Keeps /\ pc' = next
<1>1. UNCHANGED <<eqDesk, undoLog, lastUndoLog, history>> /\ pc' = next /\ pc' \notin EarlyStages /\ pc # "save"
  BY DEF Quiet, EarlyStages, LateStages
<1>2. QED
  BY <1>1, QuietKeeps DEF EqInv, LateStages

LEMMA SwitchHolds == ASSUME EqBase, NEW l \in Switches PROVE l \in Others /\ (eqDesk[l] = 0 \/ eqDesk[l] = 1)
<1>1. l \in Others
  <2>1. \E z \in Zones : l = NativeOn(z) \/ l = InsertOn(z)
    BY DEF Switches
  <2>2. QED
    BY <2>1, LeavesAreOthers
<1>2. SwitchesIn(eqDesk) /\ DOMAIN eqDesk = EqLeaves
  BY DEF EqBase, EqShape
<1>3. QED
  BY <1>1, <1>2 DEF SwitchesIn, Others

LEMMA ReadingKeeps == ASSUME EqInv, ReadNativeEq PROVE EqInv'
<1>1. /\ pc = "prepare" /\ UNCHANGED <<req, zone, target, saved>> /\ zone \in Zones
      /\ Quiet(IF req.apply /\ zone \in req.cut THEN "cut" ELSE "resolve")
      /\ read' = [cut |-> eqDesk[Cut(zone)], wasOn |-> eqDesk[NativeOn(zone)] = 1,
                  eq |-> eqDesk[NativeEq(zone)], peq |-> FALSE]
  BY DEF ReadNativeEq, EqInv, LocalsInv
<1>2. PICK next \in {"cut", "resolve"} : Quiet(next)
  BY <1>1
<1>3. EqBase' /\ Keeps /\ pc' = next
  BY <1>1, <1>2, QuietStep DEF LateStages
<1>4. UNCHANGED eqDesk
  BY <1>2 DEF Quiet
<1>5. /\ DOMAIN read' = {"cut", "wasOn", "eq", "peq"}
      /\ read'.eq = eqDesk'[NativeEq(zone')] /\ read'.cut = eqDesk'[Cut(zone')]
  BY <1>1, <1>4
<1>6. (read.wasOn)' <=> eqDesk[NativeOn(zone)] = 1
  BY <1>1, Zenon
<1>7. eqDesk[NativeOn(zone)] = 1 \/ eqDesk[NativeOn(zone)] = 0
  BY <1>1, SwitchHolds, LeavesAreOthers DEF EqInv
<1>8. (read.wasOn)' \/ eqDesk'[NativeOn(zone')] = 0
  BY <1>1, <1>4, <1>6, <1>7
<1>9. ReadOK'
  BY <1>5, <1>8 DEF ReadOK, Current
<1>10. Current(Cut(zone), read.cut)'
  BY <1>5 DEF Current
<1>11. pc \in AtStrip \cup {"prepare"} /\ pc' \in AtStrip /\ pc' # "loaded"
  BY <1>1, <1>3 DEF AtStrip
<1>12. QED
  BY <1>1, <1>3, <1>9, <1>10, <1>11, StripKept DEF EqInv

LEMMA ReadKept ==
    ASSUME ReadOK, Keeps, zone \in Zones, UNCHANGED zone, {"cut", "wasOn", "eq", "peq"} \subseteq DOMAIN read',
           read'.eq = read.eq, read.wasOn => (read.wasOn)'
    PROVE  ReadOK'
<1>1. NativeEq(zone) \in Others /\ NativeOn(zone) \in Others
  BY LeavesAreOthers
<1>2. Current(NativeEq(zone), read.eq)'
  BY <1>1 DEF Keeps, ReadOK, Current, Known
<1>3. read.wasOn \/ Current(NativeOn(zone), 0)'
  BY <1>1 DEF Keeps, ReadOK
<1>4. (read.wasOn)' \/ Current(NativeOn(zone), 0)'
  BY <1>3
<1>5. QED
  BY <1>2, <1>4 DEF ReadOK

(* A step that failed: the run only hands the analyser back. *)
LEMMA StepFailed ==
    ASSUME EqInv, EqBase', pc' = "handback", UNCHANGED <<zone, target>>
    PROVE  EqInv'
  BY NothingHeld DEF EqInv, LocalsInv, AtStrip, Settled

LEMMA CutKeeps == ASSUME EqInv, WriteCut PROVE EqInv'
<1>1. pc = "cut" /\ UNCHANGED <<req, zone, read, target, saved>>
  BY DEF WriteCut, run
<1>2. zone \in Zones /\ ReadOK /\ Current(Cut(zone), read.cut) /\ pc \in AtStrip
  BY <1>1 DEF EqInv, LocalsInv, AtStrip
<1>3. EqBase' /\ Keeps /\ pc' \in {"on", "handback"}
  <2>1. CASE read.cut = 1
    <3>1. Quiet("on")
      BY <2>1 DEF WriteCut
    <3>2. QED
      BY <1>1, <3>1, QuietStep DEF LateStages
  <2>2. CASE read.cut # 1
    <3>1. WriteEq(Cut(zone) :> 1, Cut(zone) :> read.cut, "on")
      BY <2>2 DEF WriteCut
    <3>2. Cut(zone) \in Others /\ Cut(zone) \notin Switches
      BY <1>2, LeavesAreOthers
    <3>3. "on" \in LateStages /\ pc \in LateStages /\ saved' = saved
      BY <1>1 DEF LateStages
    <3>4. QED
      BY <1>2, <3>1, <3>2, <3>3, OneKeeps DEF EqInv
  <2>3. QED
    BY <2>1, <2>2
<1>4. CASE pc' = "on"
  <2>1. ReadOK'
    BY <1>1, <1>2, <1>3, ReadKept DEF ReadOK
  <2>2. pc' \in AtStrip /\ pc' # "cut" /\ pc' # "loaded"
    BY <1>4 DEF AtStrip
  <2>3. QED
    BY <1>1, <1>2, <1>3, <2>1, <2>2, StripKept DEF EqInv
<1>5. CASE pc' = "handback"
  BY <1>1, <1>3, <1>5, StepFailed
<1>6. QED
  BY <1>3, <1>4, <1>5

LEMMA StagesAfter == NextStage \in LateStages /\ NextStage \in {"prepare", "measure"}
  BY DEF NextStage, LateStages

(* The native EQ of the strip, as it was read. *)
LEMMA PeqIsTarget ==
    ASSUME ReadOK, zone \in Zones, NEW t, t.leaf = NativeEq(zone), t.was = read.eq, {"leaf", "was"} \subseteq DOMAIN t
    PROVE  TargetOK(t)
  BY LeavesAreOthers DEF ReadOK, TargetOK

LEMMA OnKeeps == ASSUME EqInv, EnsureNativeOn PROVE EqInv'
<1> DEFINE next == IF read.peq THEN NextStage ELSE "resolve"
<1>1. /\ pc = "on" /\ UNCHANGED <<req, saved>>
      /\ IF read.wasOn THEN Quiet(next) ELSE WriteEq(NativeOn(zone) :> 1, NativeOn(zone) :> 0, next)
      /\ IF pc' = "handback" THEN UNCHANGED <<zone, read, target>>
         ELSE IF read.peq THEN Advance(PeqTarget) /\ UNCHANGED read
         ELSE read' = [read EXCEPT !.wasOn = TRUE] /\ UNCHANGED <<zone, target>>
  BY DEF EnsureNativeOn
<1>2. zone \in Zones /\ ReadOK /\ pc \in AtStrip /\ pc \in LateStages
  BY <1>1 DEF EqInv, LocalsInv, AtStrip, LateStages
<1>3. next \in LateStages /\ (read.peq => next = NextStage) /\ (~read.peq => next = "resolve")
  BY StagesAfter DEF LateStages
<1> HIDE DEF next
<1>4. EqBase' /\ Keeps /\ pc' \in {next, "handback"}
  <2>1. CASE read.wasOn
    <3>1. Quiet(next)
      BY <1>1, <2>1
    <3>2. QED
      BY <1>1, <1>2, <1>3, <3>1, QuietStep
  <2>2. CASE ~read.wasOn
    <3>1. WriteEq(NativeOn(zone) :> 1, NativeOn(zone) :> 0, next)
      BY <1>1, <2>2
    <3>2. NativeOn(zone) \in Others
      BY <1>2, LeavesAreOthers
    <3>3. Current(NativeOn(zone), 0)
      BY <1>2, <2>2 DEF ReadOK
    <3>4. NativeOn(zone) \in Switches => 1 \in {0, 1} /\ 0 \in {0, 1}
      OBVIOUS
    <3>5. EqBase /\ saved' = saved
      BY <1>1 DEF EqInv
    <3>6. QED
      BY <1>2, <1>3, <3>1, <3>2, <3>3, <3>4, <3>5, OneKeeps
  <2>3. QED
    BY <2>1, <2>2
<1>5. CASE pc' = "handback"
  BY <1>1, <1>4, <1>5, StepFailed
<1>6. CASE pc' # "handback" /\ read.peq
  <2>1. Advance(PeqTarget) /\ UNCHANGED read /\ pc' = NextStage
    BY <1>1, <1>3, <1>4, <1>6
  <2>2. PICK t : t = PeqTarget
    OBVIOUS
  <2>3. TargetOK(t)
    <3>1. t.leaf = NativeEq(zone) /\ t.was = read.eq /\ DOMAIN t = {"kind", "leaf", "was", "active"}
      BY <2>2 DEF PeqTarget
    <3>2. QED
      BY <1>2, <3>1, PeqIsTarget
  <2>4. TargetOK(t)'
    BY <1>1, <1>4, <2>3, TargetsKept
  <2>5. Advance(t)
    BY <2>1, <2>2
  <2>6. QED
    BY <1>1, <1>2, <1>4, <2>1, <2>4, <2>5, NextStrip DEF EqInv
<1>7. CASE pc' # "handback" /\ ~read.peq
  <2>1. read' = [read EXCEPT !.wasOn = TRUE] /\ UNCHANGED <<zone, target>> /\ pc' = "resolve"
    BY <1>1, <1>3, <1>4, <1>7
  <2>2. {"cut", "wasOn", "eq", "peq"} \subseteq DOMAIN read
    BY <1>2 DEF ReadOK
  <2>3. DOMAIN read' = DOMAIN read /\ read'.eq = read.eq
    BY <2>1, <2>2
  <2>4. read'.wasOn = TRUE
    BY <2>1, <2>2, Zenon
  <2>5. ReadOK'
    BY <1>2, <1>4, <2>1, <2>2, <2>3, <2>4, ReadKept
  <2>6. pc' \in AtStrip /\ pc' # "cut" /\ pc' # "loaded"
    BY <2>1 DEF AtStrip
  <2>7. QED
    BY <1>1, <1>2, <1>4, <2>1, <2>5, <2>6, StripKept DEF EqInv
<1>8. QED
  BY <1>5, <1>6, <1>7

LEMMA PeqKeeps == ASSUME EqInv, UsePeq PROVE EqInv'
<1>1. /\ pc = "resolve" /\ UNCHANGED <<req, saved>>
      /\ \/ req.apply /\ read' = [read EXCEPT !.peq = TRUE] /\ Quiet("on") /\ UNCHANGED <<zone, target>>
         \/ ~req.apply /\ Advance([PeqTarget EXCEPT !.active = read.wasOn]) /\ Quiet(NextStage) /\ UNCHANGED read
  BY DEF UsePeq
<1>2. zone \in Zones /\ ReadOK /\ pc \in AtStrip /\ pc \in LateStages
  BY <1>1 DEF EqInv, LocalsInv, AtStrip, LateStages
<1>3. CASE read' = [read EXCEPT !.peq = TRUE] /\ Quiet("on") /\ UNCHANGED <<zone, target>>
  <2>1. EqBase' /\ Keeps /\ pc' = "on"
    BY <1>1, <1>2, <1>3, QuietStep DEF LateStages
  <2>2. {"cut", "wasOn", "eq", "peq"} \subseteq DOMAIN read
    BY <1>2 DEF ReadOK
  <2>3. DOMAIN read' = DOMAIN read /\ read'.eq = read.eq
    BY <1>3, <2>2
  <2>4. (read.wasOn)' <=> read.wasOn
    BY <1>3, <2>2, Zenon
  <2>5. ReadOK'
    BY <1>2, <1>3, <2>1, <2>2, <2>3, <2>4, ReadKept
  <2>6. pc' \in AtStrip /\ pc' # "cut" /\ pc' # "loaded"
    BY <2>1 DEF AtStrip
  <2>7. QED
    BY <1>1, <1>2, <1>3, <2>1, <2>5, <2>6, StripKept DEF EqInv
<1>4. CASE Advance([PeqTarget EXCEPT !.active = read.wasOn]) /\ Quiet(NextStage) /\ UNCHANGED read
  <2>1. EqBase' /\ Keeps /\ pc' = NextStage
    BY <1>1, <1>2, <1>4, QuietStep, StagesAfter
  <2>2. PICK t : t = [PeqTarget EXCEPT !.active = read.wasOn]
    OBVIOUS
  <2>3. TargetOK(t)
    <3>1. t.leaf = NativeEq(zone) /\ t.was = read.eq /\ DOMAIN t = {"kind", "leaf", "was", "active"}
      BY <2>2 DEF PeqTarget
    <3>2. QED
      BY <1>2, <3>1, PeqIsTarget
  <2>4. TargetOK(t)'
    BY <1>1, <2>1, <2>3, TargetsKept
  <2>5. Advance(t)
    BY <1>4, <2>2
  <2>6. QED
    BY <1>1, <1>2, <2>1, <2>4, <2>5, NextStrip DEF EqInv
<1>5. QED
  BY <1>1, <1>3, <1>4

LEMMA InsertedSlots == ASSUME NEW z \in Zones, GeqInserted(z) PROVE eqDesk[Insert(z)] \in FxSlots
  BY DEF GeqInserted

LEMMA InsertedKeeps == ASSUME EqInv, UseInserted PROVE EqInv'
<1>1. PICK s : s = eqDesk[Insert(zone)]
  OBVIOUS
<1>2. PICK t : t = [kind |-> "geq", leaf |-> Bands(s), was |-> eqDesk[Bands(s)],
                    active |-> (eqDesk[InsertOn(zone)] = 1) \/ req.apply]
  OBVIOUS
<1>3. /\ pc = "resolve" /\ UNCHANGED <<req, read, saved>> /\ GeqInserted(zone)
      /\ \/ Quiet(NextStage)
         \/ eqDesk[InsertOn(zone)] # 1 /\ WriteEq(InsertOn(zone) :> 1, InsertOn(zone) :> 0, NextStage)
      /\ IF pc' = "handback" THEN UNCHANGED <<zone, target>> ELSE Advance(t)
  BY <1>1, <1>2 DEF UseInserted
<1>4. zone \in Zones /\ pc \in AtStrip /\ pc \in LateStages
  BY <1>3 DEF EqInv, LocalsInv, AtStrip, LateStages
<1>5. EqBase' /\ Keeps /\ pc' \in {NextStage, "handback"}
  <2>1. CASE Quiet(NextStage)
    BY <1>3, <1>4, <2>1, QuietStep, StagesAfter
  <2>2. CASE eqDesk[InsertOn(zone)] # 1 /\ WriteEq(InsertOn(zone) :> 1, InsertOn(zone) :> 0, NextStage)
    <3>1. InsertOn(zone) \in Switches
      BY <1>4, LeavesAreOthers
    <3>2. InsertOn(zone) \in Others /\ eqDesk[InsertOn(zone)] = 0
      BY <2>2, <3>1, SwitchHolds DEF EqInv
    <3>3. Current(InsertOn(zone), 0)
      BY <3>2 DEF Current
    <3>4. EqBase /\ saved' = saved
      BY <1>3 DEF EqInv
    <3>5. InsertOn(zone) \in Switches => 1 \in {0, 1} /\ 0 \in {0, 1}
      OBVIOUS
    <3>6. PICK next \in LateStages : next = NextStage
      BY StagesAfter
    <3>7. WriteEq(InsertOn(zone) :> 1, InsertOn(zone) :> 0, next)
      BY <2>2, <3>6
    <3>8. QED
      BY <1>4, <3>2, <3>3, <3>4, <3>5, <3>6, <3>7, OneKeeps
  <2>3. QED
    BY <1>3, <2>1, <2>2
<1>6. CASE pc' = "handback"
  BY <1>3, <1>5, <1>6, StepFailed
<1>7. CASE pc' # "handback"
  <2>1. s \in FxSlots
    BY <1>1, <1>3, <1>4, InsertedSlots
  <2>2. Bands(s) \in Others \ Switches
    BY <2>1, LeavesAreOthers
  <2>3. t.leaf = Bands(s) /\ t.was = eqDesk[t.leaf] /\ DOMAIN t = {"kind", "leaf", "was", "active"}
    BY <1>2
  <2>4. TargetOK(t)
    BY <2>2, <2>3 DEF TargetOK, Current
  <2>5. TargetOK(t)'
    BY <1>3, <1>5, <2>4, TargetsKept
  <2>6. QED
    BY <1>3, <1>4, <1>5, <1>7, <2>5, NextStrip DEF EqInv
<1>8. QED
  BY <1>6, <1>7

LEMMA LoadKeeps == ASSUME EqInv, NEW s \in FxSlots, LoadGeq(s) PROVE EqInv'
<1>1. /\ pc = "resolve" /\ UNCHANGED <<req, saved>> /\ eqDesk[Insert(zone)] = NotInserted /\ eqDesk[Model(s)] = Empty
      /\ \/ /\ req.apply /\ WriteEq(Model(s) :> Geq, Model(s) :> Empty, "loaded") /\ UNCHANGED <<zone, target>>
            /\ read' = [cut |-> read.cut, wasOn |-> read.wasOn, eq |-> read.eq, peq |-> FALSE,
                        slot |-> s, insertWasOn |-> eqDesk[InsertOn(zone)]]
         \/ /\ ~req.apply /\ Quiet(NextStage) /\ UNCHANGED read
            /\ Advance([kind |-> "geq", leaf |-> Bands(s), was |-> 0, active |-> FALSE])
  BY DEF LoadGeq, FreeSlots
<1>2. zone \in Zones /\ ReadOK /\ pc \in AtStrip /\ pc \in LateStages
  BY <1>1 DEF EqInv, LocalsInv, AtStrip, LateStages
<1>3. Model(s) \in Others /\ Model(s) \notin Switches /\ Bands(s) \in Others /\ Bands(s) \notin Switches
  BY LeavesAreOthers
<1>4. CASE req.apply /\ WriteEq(Model(s) :> Geq, Model(s) :> Empty, "loaded") /\ UNCHANGED <<zone, target>>
            /\ read' = [cut |-> read.cut, wasOn |-> read.wasOn, eq |-> read.eq, peq |-> FALSE,
                        slot |-> s, insertWasOn |-> eqDesk[InsertOn(zone)]]
  <2>1. "loaded" \in LateStages /\ EqBase /\ saved' = saved /\ Current(Model(s), Empty)
    BY <1>1 DEF LateStages, EqInv, Current
  <2>2. EqBase' /\ Keeps /\ pc' \in {"loaded", "handback"} /\ (pc' # "handback" => Known(Model(s))')
    BY <1>2, <1>3, <1>4, <2>1, OneKeeps
  <2>3. CASE pc' = "handback"
    BY <1>4, <2>2, <2>3, StepFailed
  <2>4. CASE pc' = "loaded"
    <3>1. /\ DOMAIN read' = {"cut", "wasOn", "eq", "peq", "slot", "insertWasOn"}
          /\ read'.eq = read.eq /\ read'.slot = s /\ read'.insertWasOn = eqDesk[InsertOn(zone)]
      BY <1>4
    <3>2. (read.wasOn)' <=> read.wasOn
      BY <1>4, Zenon
    <3>3. ReadOK'
      BY <1>2, <1>4, <2>2, <3>1, <3>2, ReadKept
    <3>4. InsertOn(zone) \in Switches /\ Insert(zone) \in Others
      BY <1>2, LeavesAreOthers
    <3>5. InsertOn(zone) \in Others /\ read'.insertWasOn \in {0, 1}
      BY <2>1, <3>1, <3>4, SwitchHolds
    <3>6. Current(Insert(zone), NotInserted) /\ Current(InsertOn(zone), eqDesk[InsertOn(zone)])
      BY <1>1 DEF Current
    <3>7. Current(Insert(zone), NotInserted)'
      BY <1>4, <2>2, <3>4, <3>6 DEF Keeps
    <3>8. PICK w : w = eqDesk[InsertOn(zone)]
      OBVIOUS
    <3>9. Current(InsertOn(zone), w)'
      BY <1>4, <2>2, <3>5, <3>6, <3>8 DEF Keeps
    <3>10. Current(InsertOn(zone), read.insertWasOn)'
      BY <3>1, <3>8, <3>9
    <3>11. Current(Model(read.slot), Geq)'
      BY <2>2, <2>4, <3>1 DEF Current
    <3>12. LoadedOK'
      BY <3>1, <3>5, <3>7, <3>10, <3>11 DEF LoadedOK
    <3>13. pc' \in AtStrip /\ pc' # "cut"
      BY <2>4 DEF AtStrip
    <3>14. QED
      BY <1>1, <1>2, <1>4, <2>2, <3>3, <3>12, <3>13, StripKept DEF EqInv
  <2>5. QED
    BY <2>2, <2>3, <2>4
<1>5. CASE ~req.apply /\ Quiet(NextStage) /\ UNCHANGED read
            /\ Advance([kind |-> "geq", leaf |-> Bands(s), was |-> 0, active |-> FALSE])
  <2>1. EqBase' /\ Keeps /\ pc' = NextStage
    BY <1>1, <1>2, <1>5, QuietStep, StagesAfter
  <2>2. PICK t : t = [kind |-> "geq", leaf |-> Bands(s), was |-> 0, active |-> FALSE]
    OBVIOUS
  <2>3. t.leaf = Bands(s) /\ DOMAIN t = {"kind", "leaf", "was", "active"}
    BY <2>2
  <2>4. TargetOK(t)
    BY <1>3, <1>5, <2>3 DEF TargetOK
  <2>5. TargetOK(t)'
    BY <1>1, <2>1, <2>4, TargetsKept
  <2>6. Advance(t)
    BY <1>5, <2>2
  <2>7. QED
    BY <1>1, <1>2, <2>1, <2>5, <2>6, NextStrip DEF EqInv
<1>6. QED
  BY <1>1, <1>4, <1>5

LEMMA InsertWritten ==
    \A z \in Zones, w \in {0, 1} : \A v, f : f = (Insert(z) :> v) @@ (InsertOn(z) :> w) =>
        DOMAIN f = {Insert(z), InsertOn(z)} /\ f[Insert(z)] = v /\ f[InsertOn(z)] = w /\ Assigns(f)
<1>1. TAKE z \in Zones, w \in {0, 1}
<1>2. TAKE v, f
<1>3. HAVE f = (Insert(z) :> v) @@ (InsertOn(z) :> w)
<1>4. Insert(z) \in Others /\ InsertOn(z) \in Others /\ Insert(z) \notin Switches /\ InsertOn(z) \in Switches
  BY LeavesAreOthers
<1>5. Insert(z) # InsertOn(z)
  BY <1>4
<1>6. DOMAIN f = {Insert(z), InsertOn(z)} /\ f[Insert(z)] = v /\ f[InsertOn(z)] = w
  BY <1>3, <1>5 DEF @@, :>
<1>7. QED
  BY <1>4, <1>6 DEF Assigns, SwitchesIn

LEMMA InsertKeeps == ASSUME EqInv, InsertGeq PROVE EqInv'
<1>1. PICK s, a, b : /\ s = read.slot /\ a = (Insert(zone) :> s) @@ (InsertOn(zone) :> 1)
                     /\ b = (Insert(zone) :> NotInserted) @@ (InsertOn(zone) :> read.insertWasOn)
  OBVIOUS
<1>2. PICK t : t = [kind |-> "geq", leaf |-> Bands(s), was |-> eqDesk[Bands(s)], active |-> TRUE]
  OBVIOUS
<1>3. /\ pc = "loaded" /\ UNCHANGED <<req, read, saved>> /\ WriteEq(a, b, NextStage)
      /\ IF pc' = "handback" THEN UNCHANGED <<zone, target>> ELSE Advance(t)
  BY <1>1, <1>2 DEF InsertGeq
<1>4. zone \in Zones /\ LoadedOK /\ pc \in AtStrip /\ pc \in LateStages /\ EqBase
  BY <1>3 DEF EqInv, LocalsInv, AtStrip, LateStages
<1>5. /\ DOMAIN a = {Insert(zone), InsertOn(zone)} /\ Assigns(a)
      /\ DOMAIN b = DOMAIN a /\ b[Insert(zone)] = NotInserted /\ b[InsertOn(zone)] = read.insertWasOn /\ Assigns(b)
  <2>1. DOMAIN a = {Insert(zone), InsertOn(zone)} /\ Assigns(a)
    BY <1>1, <1>4, 1 \in {0, 1}, InsertWritten
  <2>2. PICK w \in {0, 1} : w = read.insertWasOn
    BY <1>4 DEF LoadedOK
  <2>3. b = (Insert(zone) :> NotInserted) @@ (InsertOn(zone) :> w)
    BY <1>1, <2>2
  <2>4. DOMAIN b = {Insert(zone), InsertOn(zone)} /\ b[Insert(zone)] = NotInserted /\ b[InsertOn(zone)] = w /\ Assigns(b)
    <3>1. \A v, f : f = (Insert(zone) :> v) @@ (InsertOn(zone) :> w) =>
             DOMAIN f = {Insert(zone), InsertOn(zone)} /\ f[Insert(zone)] = v /\ f[InsertOn(zone)] = w /\ Assigns(f)
      BY <1>4, <2>2, InsertWritten
    <3>2. QED
      BY <2>3, <3>1
  <2>5. QED
    BY <2>1, <2>2, <2>4
<1>6. \A l \in DOMAIN b : Current(l, b[l])
  BY <1>4, <1>5 DEF LoadedOK
<1>7. PICK next \in LateStages : next = NextStage
  BY StagesAfter
<1>8. WriteEq(a, b, next)
  BY <1>3, <1>7
<1>9. EqBase' /\ Keeps /\ pc' \in {NextStage, "handback"}
  BY <1>3, <1>4, <1>5, <1>6, <1>7, <1>8, WriteKeeps
<1>10. CASE pc' = "handback"
  BY <1>3, <1>9, <1>10, StepFailed
<1>11. CASE pc' # "handback"
  <2>1. Bands(s) \in Others \ Switches
    BY <1>1, <1>4, LeavesAreOthers DEF LoadedOK
  <2>2. t.leaf = Bands(s) /\ t.was = eqDesk[t.leaf] /\ DOMAIN t = {"kind", "leaf", "was", "active"}
    BY <1>2
  <2>3. TargetOK(t)
    BY <2>1, <2>2 DEF TargetOK, Current
  <2>4. TargetOK(t)'
    BY <1>3, <1>9, <2>3, TargetsKept
  <2>5. QED
    BY <1>3, <1>4, <1>9, <1>11, <2>4, NextStrip DEF EqInv
<1>12. QED
  BY <1>10, <1>11

LEMMA UnloadKeeps == ASSUME EqInv, UnloadGeq PROVE EqInv'
<1>1. PICK s, next : s = read.slot /\ next = IF req.eq[zone] = "geq" THEN "handback" ELSE "on"
  OBVIOUS
<1>2. /\ pc = "loaded" /\ UNCHANGED <<req, zone, target, saved>> /\ WriteEq(Model(s) :> Empty, Model(s) :> Geq, next)
      /\ read' = [read EXCEPT !.peq = TRUE]
  BY <1>1 DEF UnloadGeq
<1>3. zone \in Zones /\ ReadOK /\ LoadedOK /\ pc \in AtStrip /\ pc \in LateStages /\ EqBase /\ next \in LateStages
  BY <1>1, <1>2 DEF EqInv, LocalsInv, AtStrip, LateStages
<1>4. Model(s) \in Others /\ Model(s) \notin Switches /\ Current(Model(s), Geq)
  BY <1>1, <1>3, LeavesAreOthers DEF LoadedOK
<1>5. EqBase' /\ Keeps /\ pc' \in {next, "handback"}
  BY <1>2, <1>3, <1>4, OneKeeps
<1>6. CASE pc' = "handback"
  BY <1>2, <1>5, <1>6, StepFailed
<1>7. CASE pc' # "handback"
  <2>1. pc' = "on" /\ pc' \in AtStrip /\ pc' # "cut" /\ pc' # "loaded"
    BY <1>1, <1>5, <1>7 DEF AtStrip
  <2>2. {"cut", "wasOn", "eq", "peq"} \subseteq DOMAIN read
    BY <1>3 DEF ReadOK
  <2>3. DOMAIN read' = DOMAIN read /\ read'.eq = read.eq
    BY <1>2, <2>2
  <2>4. (read.wasOn)' <=> read.wasOn
    BY <1>2, <2>2, Zenon
  <2>5. ReadOK'
    BY <1>2, <1>3, <1>5, <2>2, <2>3, <2>4, ReadKept
  <2>6. QED
    BY <1>2, <1>3, <1>5, <2>1, <2>5, StripKept DEF EqInv
<1>8. QED
  BY <1>6, <1>7

LEMMA CorrectKeeps == ASSUME EqInv, NEW v \in Levels, Correct(v) PROVE EqInv'
<1>1. PICK t : t = target[zone]
  OBVIOUS
<1>2. PICK u : u = [t EXCEPT !.was = v, !.active = TRUE]
  OBVIOUS
<1>3. PICK next \in LateStages : /\ next = IF zone + 1 \in Zones THEN "correct"
                                           ELSE IF req.apply THEN "measured" ELSE "handback"
                                 /\ next # "handback" => next \in Settled
                                 /\ req.apply => next # "handback"
  BY DEF LateStages, Settled
<1>4. /\ pc = "correct" /\ UNCHANGED <<req, read, saved>>
      /\ IF v = t.was \/ ~req.apply THEN Quiet(next) ELSE WriteEq(t.leaf :> v, t.leaf :> t.was, next)
      /\ IF pc' = "handback" /\ req.apply THEN UNCHANGED <<zone, target>> ELSE Advance(u)
  BY <1>1, <1>2, <1>3 DEF Correct
<1>5. zone \in Zones /\ DOMAIN target = Zones /\ pc \in LateStages /\ EqBase /\ \A z \in Zones : TargetOK(target[z])
  BY <1>4 DEF EqInv, LocalsInv, Settled, LateStages
<1>6. {"leaf", "was"} \subseteq DOMAIN t /\ t.leaf \in Others \ Switches /\ (req.apply => Current(t.leaf, t.was))
  BY <1>1, <1>5 DEF TargetOK
<1>7. DOMAIN u = DOMAIN t /\ u.leaf = t.leaf /\ u.was = v
  BY <1>2, <1>6
<1>8. EqBase' /\ Keeps /\ pc' \in {next, "handback"} /\ (pc' # "handback" /\ req.apply => Current(t.leaf, v)')
  <2>1. CASE v = t.was \/ ~req.apply
    <3>1. Quiet(next)
      BY <1>4, <2>1
    <3>2. EqBase' /\ Keeps /\ pc' = next
      BY <1>4, <1>5, <3>1, QuietStep
    <3>3. req.apply => Current(t.leaf, v)'
      BY <1>6, <2>1, <3>2 DEF Keeps
    <3>4. QED
      BY <3>2, <3>3
  <2>2. CASE ~(v = t.was \/ ~req.apply)
    <3>1. WriteEq(t.leaf :> v, t.leaf :> t.was, next) /\ Current(t.leaf, t.was)
      BY <1>4, <1>6, <2>2
    <3>2. EqBase' /\ Keeps /\ pc' \in {next, "handback"} /\ (pc' # "handback" => Known(t.leaf)')
      BY <1>4, <1>5, <1>6, <3>1, OneKeeps
    <3>3. QED
      BY <3>2 DEF Current
  <2>3. QED
    BY <2>1, <2>2
<1>9. Advance(u) => zone' \in Zones /\ DOMAIN target' = Zones
  BY <1>5, ZonesAreCounted DEF Advance
<1>10. CASE pc' = "handback"
  <2>1. zone' \in Zones /\ DOMAIN target' = Zones
    BY <1>4, <1>5, <1>9
  <2>2. LocalsInv'
    BY <1>10, <2>1, NothingHeld DEF EqInv, AtStrip, Settled
  <2>3. QED
    BY <1>8, <2>2 DEF EqInv
<1>11. CASE pc' # "handback"
  <2>1. Advance(u) /\ pc' \in Settled
    BY <1>3, <1>4, <1>8, <1>11
  <2>2. TargetOK(u)'
    <3>1. (req.apply)' <=> req.apply
      BY <1>4
    <3>2. req.apply => Current(u.leaf, u.was)'
      BY <1>7, <1>8, <1>11
    <3>3. QED
      BY <1>6, <1>7, <3>1, <3>2 DEF TargetOK
  <2>3. ASSUME NEW z \in Zones PROVE TargetOK(target[z])'
    <3>1. CASE z = zone
      <4>1. target'[z] = u
        BY <1>5, <2>1, <3>1 DEF Advance
      <4>2. QED
        BY <2>2, <4>1 DEF TargetOK
    <3>2. CASE z # zone
      <4>1. PICK w : w = target[z]
        OBVIOUS
      <4>2. TargetOK(w)'
        BY <1>4, <1>5, <1>8, <4>1, TargetsKept
      <4>3. target'[z] = w
        BY <1>5, <2>1, <3>2, <4>1 DEF Advance
      <4>4. QED
        BY <4>2, <4>3 DEF TargetOK
    <3>3. QED
      BY <3>1, <3>2
  <2>4. LocalsInv'
    BY <1>9, <2>1, <2>3 DEF LocalsInv, AtStrip, Settled
  <2>5. QED
    BY <1>8, <2>4 DEF EqInv
<1>12. QED
  BY <1>10, <1>11

(* The end of a run. *)
LEMMA HandBackKeeps == ASSUME EqInv, HandBack PROVE EqInv'
<1>1. /\ \/ eqDesk' = (Rta :> saved) @@ eqDesk /\ eqSince' = eqSince
         \/ eqDesk' = eqDesk /\ eqSince' = eqSince \cup {Rta}
      /\ pc = "handback" /\ pc' = "idle" /\ undoLog' = <<>>
      /\ UNCHANGED <<lastUndoLog, origin, rtaBefore, blurred>> /\ Forget
  BY DEF HandBack
<1>2. DOMAIN eqDesk = EqLeaves /\ SwitchesIn(eqDesk) /\ LogOf(undoLog) /\ LogOf(lastUndoLog)
  BY DEF EqInv, EqBase, EqShape
<1>3. /\ DOMAIN eqDesk' = EqLeaves /\ \A l \in Others : eqDesk'[l] = eqDesk[l]
      /\ Rta \in eqSince' \/ (eqDesk'[Rta] = saved /\ eqSince' = eqSince)
  <2>1. DOMAIN ((Rta :> saved) @@ eqDesk) = EqLeaves
    BY <1>2, LeavesAreOthers DEF @@, :>
  <2>2. \A l \in Others : ((Rta :> saved) @@ eqDesk)[l] = eqDesk[l]
    BY <1>2 DEF @@, :>, Others
  <2>3. ((Rta :> saved) @@ eqDesk)[Rta] = saved
    BY <1>2, LeavesAreOthers DEF @@, :>
  <2>4. QED
    BY <1>1, <1>2, <2>1, <2>2, <2>3
<1>4. SwitchesIn(eqDesk')
  <2>1. \A l \in Switches : l \in Others
    BY SwitchHolds DEF EqInv
  <2>2. QED
    BY <1>2, <1>3, <2>1 DEF SwitchesIn, Others
<1>5. LogOf(<<>>)
  BY EmptySeq DEF LogOf
<1>6. EqShape'
  BY <1>1, <1>2, <1>3, <1>4, <1>5 DEF EqShape, EarlyStages, LogOf
<1>7. RtaInv'
  <2>1. Rta \in eqSince \/ saved = rtaBefore
    BY <1>1 DEF EqInv, EqBase, RtaInv, LateStages
  <2>2. QED
    BY <1>1, <1>3, <2>1 DEF RtaInv, LateStages
<1>8. LogInv'
  <2>1. Brings(lastUndoLog, origin, blurred) => Brings(lastUndoLog, origin, blurred)'
    BY <1>1, <1>3 DEF Brings
  <2>2. QED
    BY <1>1, <2>1 DEF EqInv, EqBase, LogInv
<1>9. LocalsInv'
  BY <1>1, ForgetHolds, NothingHeld DEF EqInv, AtStrip, Settled
<1>10. QED
  BY <1>6, <1>7, <1>8, <1>9 DEF EqInv, EqBase

LEMMA MeddlingKeeps == ASSUME EqInv, NEW l \in EqLeaves, NEW v, l \in Switches => v \in {0, 1}, MeddleEq(l, v) PROVE EqInv'
<1>1. /\ eqDesk' = [eqDesk EXCEPT ![l] = v] /\ eqSince' = eqSince \cup {l} /\ blurred' = blurred \cup {l}
      /\ UNCHANGED <<pc, req, zone, read, target, saved, undoLog, lastUndoLog, origin, rtaBefore>>
  BY DEF MeddleEq, Uncertain, run
<1>2. DOMAIN eqDesk = EqLeaves /\ SwitchesIn(eqDesk)
  BY DEF EqInv, EqBase, EqShape
<1>3. /\ DOMAIN eqDesk' = EqLeaves /\ SwitchesIn(eqDesk')
      /\ \A k \in EqLeaves : k = l \/ eqDesk'[k] = eqDesk[k]
  BY <1>1, <1>2 DEF SwitchesIn
<1>4. EqShape'
  BY <1>1, <1>3 DEF EqInv, EqBase, EqShape, LogOf
<1>5. RtaInv'
  BY <1>1, <1>3, LeavesAreOthers DEF EqInv, EqBase, RtaInv
<1>6. LogInv'
  <2>1. Brings(lastUndoLog, origin, blurred) => Brings(lastUndoLog, origin, blurred)'
    BY <1>1, <1>3 DEF Brings, Others
  <2>2. QED
    BY <1>1, <2>1 DEF EqInv, EqBase, LogInv
<1>7. Keeps
  BY <1>1, <1>3 DEF Keeps, Current, Known, Others
<1>8. LocalsInv'
  BY <1>1, <1>7, LocalsStay DEF EqInv
<1>9. QED
  BY <1>4, <1>5, <1>6, <1>8 DEF EqInv, EqBase

(* Undo. *)
LEMMA LastEntry ==
    ASSUME NEW log, LogOf(log), log # <<>>
    PROVE  /\ Len(log) \in Nat \ {0} /\ Assigns(log[Len(log)])
           /\ LogOf(SubSeq(log, 1, Len(log) - 1)) /\ Len(SubSeq(log, 1, Len(log) - 1)) = Len(log) - 1
           /\ \A n \in 1..Len(log) - 1 : SubSeq(log, 1, Len(log) - 1)[n] = log[n]
<1>1. PICK S : log \in Seq(S) /\ \A e \in S : Assigns(e)
  BY DEF LogOf
<1>2. Len(log) \in Nat \ {0} /\ log[Len(log)] \in S
  BY <1>1
<1>3. /\ SubSeq(log, 1, Len(log) - 1) \in Seq(S) /\ Len(SubSeq(log, 1, Len(log) - 1)) = Len(log) - 1
      /\ \A n \in 1..Len(log) - 1 : SubSeq(log, 1, Len(log) - 1)[n] = log[n]
  <2>1. PICK k \in Nat : Len(log) = k + 1 /\ Len(log) - 1 = k
    <3>1. Len(log) - 1 \in Nat /\ Len(log) = (Len(log) - 1) + 1
      BY <1>2
    <3>2. QED
      BY <3>1
  <2>2. k \in 1 - 1..Len(log) /\ 1 \in 1..Len(log) + 1
    BY <2>1
  <2>3. /\ SubSeq(log, 1, k) \in Seq(S) /\ Len(SubSeq(log, 1, k)) = k
        /\ \A n \in 1..k : SubSeq(log, 1, k)[n] = log[n]
    <3>1. /\ SubSeq(log, 1, k) \in Seq(S)
          /\ Len(SubSeq(log, 1, k)) = IF 1 <= k THEN k - 1 + 1 ELSE 0
          /\ \A i \in 1..k - 1 + 1 : SubSeq(log, 1, k)[i] = log[1 + i - 1]
      BY <1>1, <2>2, SubSeqProperties
    <3>2. \A i \in 1..k : i \in 1..k - 1 + 1 /\ 1 + i - 1 = i
      BY <2>1
    <3>3. QED
      BY <2>1, <3>1, <3>2
  <2>4. QED
    BY <2>1, <2>3
<1>4. QED
  BY <1>1, <1>2, <1>3 DEF LogOf

LEMMA UndoOneKeeps == ASSUME EqInv, UndoOne PROVE EqInv'
<1>1. PICK entry : entry = lastUndoLog[Len(lastUndoLog)]
  OBVIOUS
<1>2. /\ pc = "undo" /\ lastUndoLog # <<>>
      /\ UNCHANGED <<req, zone, read, target, saved, undoLog, origin, rtaBefore, eqSince, blurred>>
      /\ \/ eqDesk' = entry @@ eqDesk /\ lastUndoLog' = SubSeq(lastUndoLog, 1, Len(lastUndoLog) - 1) /\ pc' = "undo"
         \/ eqDesk' \in {eqDesk, entry @@ eqDesk} /\ pc' = "idle" /\ lastUndoLog' = lastUndoLog
  BY <1>1 DEF UndoOne, run, history
<1>3. /\ DOMAIN eqDesk = EqLeaves /\ SwitchesIn(eqDesk) /\ LogOf(undoLog) /\ LogOf(lastUndoLog) /\ undoLog = <<>>
      /\ Brings(lastUndoLog, origin, blurred)
  BY <1>2 DEF EqInv, EqBase, EqShape, LogInv, EarlyStages
<1>4. PICK k \in Nat : Len(lastUndoLog) = k + 1 /\ entry = lastUndoLog[k + 1] /\ Assigns(entry)
  <2>1. Len(lastUndoLog) \in Nat \ {0} /\ Assigns(lastUndoLog[Len(lastUndoLog)])
    BY <1>2, <1>3, LastEntry
  <2>2. Len(lastUndoLog) - 1 \in Nat /\ Len(lastUndoLog) = (Len(lastUndoLog) - 1) + 1
    BY <2>1
  <2>3. QED
    BY <1>1, <2>1, <2>2
<1>5. /\ DOMAIN (entry @@ eqDesk) = EqLeaves /\ SwitchesIn(entry @@ eqDesk)
      /\ \A l \in EqLeaves \ DOMAIN entry : (entry @@ eqDesk)[l] = eqDesk[l]
      /\ \A l \in DOMAIN entry : (entry @@ eqDesk)[l] = entry[l]
  <2>1. \A l \in DOMAIN entry : (entry @@ eqDesk)[l] = entry[l]
    BY DEF @@
  <2>2. QED
    BY <1>3, <1>4, <2>1, AssignedOver
<1>6. DOMAIN entry \subseteq Others /\ Rta \notin DOMAIN entry /\ Rta \in EqLeaves
  BY <1>4, LeavesAreOthers DEF Assigns, Others
<1>7. /\ LogOf(SubSeq(lastUndoLog, 1, k)) /\ Len(SubSeq(lastUndoLog, 1, k)) = k
      /\ \A n \in 1..k : SubSeq(lastUndoLog, 1, k)[n] = lastUndoLog[n]
  <2>1. Len(lastUndoLog) - 1 = k
    BY <1>4
  <2>2. QED
    BY <1>2, <1>3, <2>1, LastEntry
<1>8. /\ DOMAIN eqDesk' = EqLeaves /\ SwitchesIn(eqDesk') /\ LogOf(lastUndoLog') /\ eqDesk'[Rta] = eqDesk[Rta]
      /\ pc' \in {"idle", "undo"} /\ undoLog' = <<>>
  <2>1. (entry @@ eqDesk)[Rta] = eqDesk[Rta]
    BY <1>5, <1>6
  <2>2. Len(lastUndoLog) - 1 = k
    BY <1>4
  <2>3. QED
    BY <1>2, <1>3, <1>5, <1>7, <2>1, <2>2
<1>9. LogOf(undoLog')
  BY <1>2, <1>3 DEF LogOf
<1>10. EqShape'
  BY <1>8, <1>9 DEF EqShape, EarlyStages
<1>11. RtaInv'
  BY <1>2, <1>8 DEF EqInv, EqBase, RtaInv, EarlyStages, LateStages
<1>12. Brings(lastUndoLog, origin, blurred)'
  <2>1. ASSUME NEW l \in Others \ blurred, \A n \in 1..k : l \notin DOMAIN lastUndoLog[n]
        PROVE  (l \in DOMAIN entry => entry[l] = origin[l]) /\ (entry @@ eqDesk)[l] = origin[l]
    <3>1. CASE l \in DOMAIN entry
      <4>1. k + 1 \in 1..Len(lastUndoLog) /\ l \in DOMAIN lastUndoLog[k + 1] /\ (k + 1) - 1 = k
        BY <1>4, <3>1
      <4>2. lastUndoLog[k + 1][l] = origin[l]
        BY <1>3, <2>1, <4>1 DEF Brings
      <4>3. QED
        BY <1>4, <1>5, <3>1, <4>2
    <3>2. CASE l \notin DOMAIN entry
      <4>1. \A n \in 1..Len(lastUndoLog) : n \in 1..k \/ n = k + 1
        BY <1>4
      <4>2. \A n \in 1..Len(lastUndoLog) : l \notin DOMAIN lastUndoLog[n]
        BY <1>4, <2>1, <3>2, <4>1
      <4>3. eqDesk[l] = origin[l]
        BY <1>3, <2>1, <4>2 DEF Brings
      <4>4. QED
        BY <1>5, <3>2, <4>3 DEF Others
    <3>3. QED
      BY <3>1, <3>2
  <2>2. \A n \in 1..k : n \in 1..Len(lastUndoLog)
    BY <1>4
  <2>3. CASE eqDesk' = entry @@ eqDesk /\ lastUndoLog' = SubSeq(lastUndoLog, 1, Len(lastUndoLog) - 1)
    <3>1. lastUndoLog' = SubSeq(lastUndoLog, 1, k) /\ Len(lastUndoLog') = k
      BY <1>4, <1>7, <2>3
    <3>2. \A n \in 1..k : lastUndoLog'[n] = lastUndoLog[n]
      BY <1>7, <3>1
    <3>3. ASSUME NEW l \in Others \ blurred, \A n \in 1..k : l \notin DOMAIN lastUndoLog'[n]
          PROVE  eqDesk'[l] = origin[l]
      BY <2>1, <2>3, <3>2, <3>3
    <3>4. ASSUME NEW l \in Others \ blurred, NEW n \in 1..k, l \in DOMAIN lastUndoLog'[n],
                 \A m \in 1..n - 1 : l \notin DOMAIN lastUndoLog'[m]
          PROVE  lastUndoLog'[n][l] = origin[l]
      <4>1. \A m \in 1..n - 1 : m \in 1..k
        BY <3>4
      <4>2. \A m \in 1..n - 1 : l \notin DOMAIN lastUndoLog[m]
        BY <3>2, <3>4, <4>1
      <4>3. lastUndoLog[n][l] = origin[l]
        BY <1>3, <2>2, <3>2, <3>4, <4>2 DEF Brings
      <4>4. QED
        BY <3>2, <4>3
    <3>5. QED
      BY <1>2, <3>1, <3>3, <3>4 DEF Brings
  <2>4. CASE eqDesk' = entry @@ eqDesk /\ lastUndoLog' = lastUndoLog
    <3>1. \A l \in Others \ blurred : (\A n \in 1..Len(lastUndoLog) : l \notin DOMAIN lastUndoLog[n]) => eqDesk'[l] = origin[l]
      BY <2>1, <2>2, <2>4
    <3>2. QED
      BY <1>2, <1>3, <2>4, <3>1 DEF Brings
  <2>5. CASE eqDesk' = eqDesk /\ lastUndoLog' = lastUndoLog
    BY <1>2, <1>3, <2>5 DEF Brings
  <2>6. QED
    BY <1>2, <2>3, <2>4, <2>5
<1>13. LogInv'
  BY <1>8, <1>12 DEF LogInv
<1>14. LocalsInv'
  BY <1>2, <1>8, NothingHeld DEF EqInv, LocalsInv, AtStrip, Settled
<1>15. QED
  BY <1>10, <1>11, <1>13, <1>14 DEF EqInv, EqBase

LEMMA UndoEndsKeep == ASSUME EqInv, StartUndo \/ UndoDone PROVE EqInv'
<1>1. /\ pc \in {"idle", "undo"} /\ pc' \in {"idle", "undo"}
      /\ UNCHANGED <<eqDesk, req, zone, read, target, saved, undoLog, lastUndoLog, rtaBefore, eqSince>>
      /\ IF pc = "idle" THEN pc' = "undo" /\ lastUndoLog # <<>> /\ UNCHANGED <<origin, blurred>>
                        ELSE pc' = "idle" /\ lastUndoLog = <<>>
  BY DEF StartUndo, UndoDone, running, run, history
<1>2. EqShape'
  BY <1>1 DEF EqInv, EqBase, EqShape, LogOf, SwitchesIn, EarlyStages
<1>3. RtaInv'
  BY <1>1 DEF EqInv, EqBase, RtaInv, EarlyStages, LateStages
<1>4. undoLog = <<>>
  BY <1>1 DEF EqInv, EqBase, EqShape, EarlyStages
<1>5. LogInv'
  <2>1. CASE pc = "idle"
    <3>1. Brings(lastUndoLog, origin, blurred)
      BY <1>1, <2>1 DEF EqInv, EqBase, LogInv
    <3>2. Brings(lastUndoLog, origin, blurred)'
      BY <1>1, <2>1, <3>1 DEF Brings
    <3>3. QED
      BY <1>1, <1>4, <3>2 DEF LogInv
  <2>2. CASE pc = "undo"
    BY <1>1, <1>4, <2>2 DEF LogInv
  <2>3. QED
    BY <1>1, <2>1, <2>2
<1>6. LocalsInv'
  BY <1>1, NothingHeld DEF EqInv, LocalsInv, AtStrip, Settled
<1>7. QED
  BY <1>2, <1>3, <1>5, <1>6 DEF EqInv, EqBase

LEMMA EqInitHolds == EqInit => EqInv
<1> SUFFICES ASSUME EqInit PROVE EqInv
  OBVIOUS
<1>1. /\ eqDesk \in Rigs /\ pc = "idle" /\ undoLog = <<>> /\ lastUndoLog = <<>> /\ zone = 1
      /\ DOMAIN target = Zones /\ rtaBefore = eqDesk[Rta]
  BY DEF EqInit, NoLocals
<1>2. DOMAIN eqDesk = EqLeaves /\ SwitchesIn(eqDesk)
  BY <1>1, RequestAssumption DEF SwitchesIn
<1>3. LogOf(<<>>)
  <2>1. PICK S : S = {}
    OBVIOUS
  <2>2. <<>> \in Seq(S) /\ \A e \in S : Assigns(e)
    BY <2>1, EmptySeq
  <2>3. QED
    BY <2>2 DEF LogOf
<1>4. EqShape
  BY <1>1, <1>2, <1>3 DEF EqShape, EarlyStages
<1>5. RtaInv /\ LogInv
  BY <1>1 DEF RtaInv, LogInv, LateStages
<1>6. LocalsInv
  BY <1>1, ZonesAreCounted DEF LocalsInv, AtStrip, Settled
<1>7. QED
  BY <1>4, <1>5, <1>6 DEF EqInv, EqBase

LEMMA EqGoesOn == EqInv /\ [EqNext]_eqVars => EqInv'
<1> SUFFICES ASSUME EqInv, [EqNext]_eqVars PROVE EqInv'
  OBVIOUS
<1>1. CASE Stages
  BY <1>1, ChecksKeep, MeasuringKeeps, BreakKeeps, ReadingKeeps, CutKeeps, OnKeeps, PeqKeeps, InsertedKeeps,
     LoadKeeps, InsertKeeps, UnloadKeeps, CorrectKeeps, EndRoundKeeps, HandBackKeeps, UndoOneKeeps, UndoEndsKeep
     DEF Stages
<1>2. CASE CancelRun \/ StartUndo
  BY <1>2, CancelKeeps, UndoEndsKeep
<1>3. CASE \E r \in Requests : StartRun(r)
  BY <1>3, StartKeeps
<1>4. CASE \E m \in Meddling : MeddleEq(m[1], m[2])
  <2>1. PICK m \in Meddling : MeddleEq(m[1], m[2])
    BY <1>4
  <2>2. m[1] \in EqLeaves /\ (m[1] \in Switches => m[2] \in {0, 1})
    BY RequestAssumption
  <2>3. QED
    BY <2>1, <2>2, MeddlingKeeps
<1>5. CASE UNCHANGED eqVars
  <2>1. UNCHANGED <<eqDesk, pc, req, zone, read, target, saved, undoLog, lastUndoLog, origin, rtaBefore, eqSince, blurred>>
    BY <1>5 DEF eqVars, run, history
  <2>2. EqShape' /\ RtaInv'
    BY <2>1 DEF EqInv, EqBase, EqShape, RtaInv, LogOf, SwitchesIn
  <2>3. Brings(lastUndoLog, origin, blurred) <=> Brings(lastUndoLog, origin, blurred)'
    BY <2>1 DEF Brings
  <2>4. LogInv'
    BY <2>1, <2>3 DEF EqInv, EqBase, LogInv
  <2>5. Keeps
    BY <2>1 DEF Keeps, Current, Known
  <2>6. LocalsInv'
    BY <2>1, <2>5, LocalsStay DEF EqInv
  <2>7. QED
    BY <2>2, <2>4, <2>6 DEF EqInv, EqBase
<1>6. QED
  BY <1>1, <1>2, <1>3, <1>4, <1>5 DEF EqNext

(* However a run of the automatic EQ ends, the analyser shows what it      *)
(* showed before, but for a last write that failed or somebody else's      *)
(* (restoreRta(), the finally of runAutoEqBalance()): for any number of    *)
(* strips, slots, rounds and failures.                                     *)
THEOREM AnalyserIsHandedBack == EqSpec => []RtaIsHandedBack
<1>1. EqInv => RtaIsHandedBack
  BY DEF EqInv, EqBase, RtaInv, RtaIsHandedBack, running, EarlyStages
<1>2. QED
  BY <1>1, EqInitHolds, EqGoesOn, PTL DEF EqSpec

(* An undo that reports success has brought back every leaf the run wrote, *)
(* over its stages, rounds, failures and retries (undoAutoEqBalance()).    *)
THEOREM UndoIsComplete == EqSpec => UndoRestoresRun
<1>1. EqInv /\ UndoDone => \A l \in EqLeaves \ ({Rta} \cup blurred) : eqDesk[l] = origin[l]
  <2> SUFFICES ASSUME EqInv, UndoDone PROVE \A l \in EqLeaves \ ({Rta} \cup blurred) : eqDesk[l] = origin[l]
    OBVIOUS
  <2>1. lastUndoLog = <<>> /\ Brings(lastUndoLog, origin, blurred)
    BY DEF UndoDone, EqInv, EqBase, LogInv
  <2>2. Len(<<>>) = 0 /\ \A n \in 1..0 : FALSE
    OBVIOUS
  <2>3. \A l \in Others \ blurred : eqDesk[l] = origin[l]
    BY <2>1, <2>2 DEF Brings
  <2>4. QED
    BY <2>3 DEF Others
<1>2. EqInv /\ [EqNext]_eqVars =>
        [UndoDone => \A l \in EqLeaves \ ({Rta} \cup blurred) : eqDesk[l] = origin[l]]_eqVars
  BY <1>1
<1>3. QED
  BY <1>2, EqInitHolds, EqGoesOn, PTL DEF EqSpec, UndoRestoresRun
=============================================================================
