------------------------------ MODULE ToolCalls ------------------------------
(***************************************************************************)
(* The console tools an assistant calls (tools/*.ts), what each does to the *)
(* console, and the wrapper every one is registered through                 *)
(* (journalWriteTools in tools/index.ts): show mode, which refuses what is  *)
(* heard until it is confirmed, and the journal batch that lists the writes *)
(* of a call.                                                               *)
(*                                                                          *)
(* A console parameter is a kind of leaf: one that only changes how a strip *)
(* looks, the surface (lights, selection, counters), or the sound. What is  *)
(* followed is one call, of any of the tools, while show mode is switched.  *)
(***************************************************************************)
EXTENDS Naturals, FiniteSets, Sequences

CONSTANTS
    ListedBefore \* what a batch of the journal, which wing_undo may be given, wrote

\* COSMETIC_LEAVES: everything else is treated as audible.
Looks == {"name", "col", "icon", "led", "tags", "clink"}
IsAudible(leaf) == leaf \notin Looks
Sound == "sound"
Surface == "surface"
ToolLeaves == Looks \cup {Sound, Surface}

ASSUME ListedAssumption == ListedBefore \subseteq ToolLeaves /\ ListedBefore # {}

-----------------------------------------------------------------------------
(* What a tool does: "reads"; "keeps" something at the server only;         *)
(* "sets" keys with one acknowledged bulk-set; "commands" one, whose        *)
(* previous value means nothing; "toggles" (a bulk-set, then a bare SET);   *)
(* writes "tags" with a bare SET; "verifies" (wing-write.ts); "moves" a     *)
(* strip; "restores" a batch; or "steers" with an undo of its own.          *)
Tools(names, does, keys) == {[tool |-> n, does |-> does, keys |-> keys] : n \in names}
Reading(names) == Tools(names, "reads", {})

ChannelTools ==
    Reading({"wing_channel_get_fader", "wing_channel_get_mute", "wing_channel_get_summary"})
    \cup Tools({"wing_channel_set_fader", "wing_channel_set_mute", "wing_channel_set_pan"}, "sets", {Sound})
    \cup Tools({"wing_channel_toggle_mute"}, "toggles", {Sound})
    \cup Tools({"wing_channel_set_name"}, "sets", {"name"})

BusMainMatrixTools ==
    Reading({"wing_bus_get_fader", "wing_bus_get_mute", "wing_bus_get_summary"})
    \cup Tools({"wing_bus_set_fader", "wing_bus_set_mute"}, "sets", {Sound})
    \cup Tools({"wing_bus_set_mono"}, "verifies", {Sound})

DcaMutegroupTools ==
    Reading({"wing_dca_get_fader", "wing_dca_get_mute", "wing_dca_get_summary"})
    \cup Tools({"wing_dca_set_fader", "wing_dca_set_mute", "wing_mutegroup_set"}, "sets", {Sound})
    \cup Tools({"wing_mutegroup_set_name"}, "sets", {"name"})
    \cup Tools({"wing_mutegroup_toggle"}, "toggles", {Sound})

GenericTools ==
    Reading({"wing_get", "wing_get_many", "wing_dump", "wing_describe", "wing_discover"})
    \cup Tools({"wing_set", "wing_bulk_set"}, "verifies", ToolLeaves)

JournalTools == Reading({"wing_history", "wing_status"}) \cup Tools({"wing_undo"}, "restores", ListedBefore)

UserSignalTools ==
    Reading({"wing_usr_list", "wing_input_patch", "wing_output_patch"})
    \cup Tools({"wing_usr_set"}, "verifies", {"name", "col", "icon", Sound})

IdentityTools ==
    Reading({"wing_source_list", "wing_icon_search"})
    \cup Tools({"wing_copy_identity"}, "verifies", {"name", "col", "icon", Sound})
    \cup Tools({"wing_clear_identity"}, "verifies", {"name", "col", "icon"})

BoxMapTools == Reading({"wing_get_box_map", "wing_patch_export"}) \cup Tools({"wing_set_box_map"}, "keeps", {})

TransferTools == Tools({"wing_channel_copy", "wing_channel_swap"}, "moves", {"name", Sound})

GroupTools == Reading({"wing_get_group_membership"}) \cup Tools({"wing_set_group_membership"}, "tags", {"tags"})

RoutingTools == Reading({"wing_get_send"}) \cup Tools({"wing_set_send"}, "verifies", {Sound})

SceneTools ==
    Reading({"wing_scene_list", "wing_scene_get_current"})
    \cup Tools({"wing_scene_recall", "wing_scene_next", "wing_scene_prev"}, "commands", {Sound})

NameListTools == Reading({"wing_list_names"})

FadeTools == Tools({"wing_fade"}, "steers", {Sound}) \cup Tools({"wing_fade_cancel"}, "keeps", {})
AutoGainTools == Tools({"wing_auto_gain"}, "steers", {Sound})
AutoCompressTools == Tools({"wing_auto_compress"}, "steers", {Sound})
AutoGateTools == Tools({"wing_auto_gate"}, "steers", {Sound})
AutoEqTools == Tools({"wing_auto_eq_balance", "wing_auto_eq_undo"}, "steers", {Sound})

ValueMemoryTools ==
    Tools({"wing_store_value"}, "keeps", {})
    \cup Tools({"wing_restore_value", "wing_adjust_value_by_delta", "wing_undo_last_adjust"}, "steers", {Sound})

CalibrationTools ==
    Reading({"wing_mic_calibration_list"})
    \cup Tools({"wing_mic_calibration_save", "wing_mic_calibration_delete"}, "keeps", {})

DynamicsStatusTools == Reading({"wing_dynamics_status"})
MeterStatsTools == Reading({"wing_meter_stats"})
PluginCatalogTools == Reading({"wing_get_plugin_model", "wing_list_plugins_by_usage"})

RtaTools == Reading({"wing_get_rta", "wing_get_rta_source"}) \cup Tools({"wing_set_rta_source"}, "sets", {Surface})
InsertTools == Reading({"wing_get_insert"}) \cup Tools({"wing_set_insert"}, "sets", {Sound})
BlockTools == Reading({"wing_get_processing_block"}) \cup Tools({"wing_set_processing_block"}, "sets", {Sound})
ProcOrderTools == Reading({"wing_channel_get_proc"}) \cup Tools({"wing_channel_set_proc"}, "sets", {Sound})
DelayTools == Reading({"wing_get_delay"}) \cup Tools({"wing_set_delay"}, "sets", {Sound})

InputPatchTools ==
    Reading({"wing_get_input_patch", "wing_get_global_alt_switch"})
    \cup Tools({"wing_set_input_connection", "wing_set_alt_source_active", "wing_set_global_alt_switch"}, "sets", {Sound})
    \cup Tools({"wing_set_srcauto"}, "sets", {"clink"})

SourceTools == Reading({"wing_get_source"}) \cup Tools({"wing_set_source"}, "sets", {"name", "col", "icon", Sound})

MatrixDirectTools ==
    Reading({"wing_get_matrix_direct_input"}) \cup Tools({"wing_set_matrix_direct_input"}, "sets", {Sound})

LinkStatusTools == Reading({"wing_get_link_status"}) \cup Tools({"wing_clear_link_errors"}, "commands", {Surface})

TalkbackTools ==
    Reading({"wing_get_talkback"})
    \cup Tools({"wing_set_talkback_assign", "wing_set_talkback_source", "wing_set_talkback_destination"}, "sets", {Sound})

GpioTools == Reading({"wing_get_gpio"}) \cup Tools({"wing_set_gpio_mode", "wing_set_gpio_state"}, "sets", {Sound})
OscMirrorTools == Reading({"wing_get_osc_mirror_status"}) \cup Tools({"wing_set_osc_mirror"}, "keeps", {})

BridgeTools ==
    Reading({"wing_bridge_status"})
    \cup Tools({"wing_bridge_configure", "wing_bridge_set_safes", "wing_bridge_set_profiles"}, "keeps", {})

\* performPresetLoad writes with bulk-sets, and the tags with a bare SET.
PresetTools ==
    Reading({"wing_preset_list", "wing_preset_get"})
    \cup Tools({"wing_preset_save", "wing_preset_delete"}, "keeps", {})
    \cup Tools({"wing_preset_load"}, "sets", {"name", "col", Sound})

SaveFlashTools ==
    Reading({"wing_get_autosave_config"})
    \cup Tools({"wing_save_to_flash"}, "commands", {Surface})
    \cup Tools({"wing_set_autosave_config"}, "sets", {Surface})

ScribbleTools == Reading({"wing_get_scribble"}) \cup Tools({"wing_set_scribble"}, "sets", {"led", "col", "icon"})
LightingTools == Reading({"wing_get_lighting"}) \cup Tools({"wing_set_lighting"}, "sets", {Surface})
SelectedStripTools == Reading({"wing_get_selected_strip"}) \cup Tools({"wing_set_selected_strip"}, "sets", {Surface})

SoloMonitorTools ==
    Reading({"wing_get_strip_solo", "wing_get_solo_config", "wing_get_monitor_bus"})
    \cup Tools({"wing_set_strip_solo", "wing_set_solo_config", "wing_set_monitor_bus"}, "sets", {Sound})

UsbPlayerTools ==
    Reading({"wing_usb_player_status"})
    \cup Tools({"wing_usb_play", "wing_usb_record", "wing_usb_set_repeat"}, "commands", {Sound})

WingLiveTools ==
    Reading({"wing_get_wlive_status"})
    \cup Tools({"wing_wlive_transport", "wing_wlive_session", "wing_wlive_marker", "wing_wlive_format_sd_card"},
               "commands", {Sound})

AllTools == UNION
    {ChannelTools, BusMainMatrixTools, DcaMutegroupTools, GenericTools, JournalTools, UserSignalTools, IdentityTools,
     BoxMapTools, TransferTools, GroupTools, RoutingTools, SceneTools, NameListTools, FadeTools, AutoGainTools,
     AutoCompressTools, AutoGateTools, AutoEqTools, ValueMemoryTools, CalibrationTools, DynamicsStatusTools,
     MeterStatsTools, PluginCatalogTools, RtaTools, InsertTools, BlockTools, ProcOrderTools, DelayTools,
     InputPatchTools, SourceTools, MatrixDirectTools, LinkStatusTools, TalkbackTools, GpioTools, OscMirrorTools,
     BridgeTools, PresetTools, SaveFlashTools, ScribbleTools, LightingTools, SelectedStripTools, SoloMonitorTools,
     UsbPlayerTools, WingLiveTools}
-----------------------------------------------------------------------------
UnjournaledTools ==
    {"wing_undo", "wing_fade", "wing_fade_cancel", "wing_auto_gain", "wing_auto_compress", "wing_auto_gate",
     "wing_auto_eq_balance", "wing_auto_eq_undo", "wing_adjust_value_by_delta", "wing_restore_value",
     "wing_undo_last_adjust", "wing_scene_recall", "wing_scene_next", "wing_scene_prev", "wing_save_to_flash",
     "wing_usb_play", "wing_usb_record", "wing_usb_set_repeat", "wing_wlive_transport", "wing_wlive_session",
     "wing_wlive_marker", "wing_wlive_format_sd_card", "wing_clear_link_errors"}

CheckedPerKey ==
    {"wing_set", "wing_bulk_set", "wing_usr_set", "wing_copy_identity", "wing_clear_identity", "wing_bus_set_mono",
     "wing_set_send", "wing_channel_copy", "wing_channel_swap", "wing_undo"}

Inaudible ==
    {"wing_channel_set_name", "wing_mutegroup_set_name", "wing_set_scribble", "wing_set_srcauto",
     "wing_set_selected_strip", "wing_set_lighting", "wing_set_box_map", "wing_set_osc_mirror",
     "wing_bridge_configure", "wing_bridge_set_safes", "wing_bridge_set_profiles", "wing_set_autosave_config",
     "wing_save_to_flash", "wing_clear_link_errors", "wing_preset_save", "wing_preset_delete",
     "wing_mic_calibration_save", "wing_mic_calibration_delete", "wing_fade_cancel"}

ShowModeExempt == CheckedPerKey \cup Inaudible

ReadOnly(t) == t.does = "reads"
AsksToConfirm(t) == ~ReadOnly(t) /\ t.tool \notin ShowModeExempt

\* runBatch around the handler; wing_undo opens its own.
HasBatch(t) == ~ReadOnly(t) /\ (t.tool \notin UnjournaledTools \/ t.does = "restores")

VARIABLES showMode, tc, moved, listed, watched

toolVars == <<showMode, tc, moved, listed, watched>>

NoToolCall == [stage |-> "idle"]
Stage(s) == tc.stage = s

ToolCallsInit ==
    /\ showMode \in BOOLEAN
    /\ tc = NoToolCall
    /\ moved = {}      \* the leaves this call changed at the console
    /\ listed = {}     \* those its batch has an entry for
    /\ watched = FALSE \* history: show mode has been on since the call came

ToolType ==
    /\ tc = NoToolCall \/ (tc.tool \in AllTools /\ tc.acked \in BOOLEAN)
    /\ moved \subseteq ToolLeaves /\ listed \subseteq ToolLeaves

\* The bulk-sets of a handler: a copy writes a strip with several.
WritesOf(t, keys) ==
    IF t.does \in {"reads", "keeps"} THEN << >>
    ELSE IF t.does = "moves" /\ Cardinality(keys) = 2 THEN <<{"name"}, {Sound}>>
    ELSE <<keys>>

\* Every call comes through the wrapper.
CallTool ==
    /\ Stage("idle")
    /\ \E t \in AllTools, confirm \in BOOLEAN :
        \E keys \in IF t.keys = {} \/ t.does = "restores" THEN {t.keys}
                    ELSE {k \in SUBSET t.keys : Cardinality(k) \in 1 .. 2} :
            tc' = [tool |-> t, confirm |-> confirm, todo |-> WritesOf(t, keys), acked |-> TRUE,
                   stage |-> IF AsksToConfirm(t) /\ showMode /\ ~confirm THEN "refused" ELSE "reading"]
    /\ watched' = showMode
    /\ UNCHANGED <<showMode, moved, listed>>

\* Mutant: a strip's copy is checked by the leaves it writes first only.
ChecksOnlyTheFirst(t, todo) == IF t.does \in {"verifies", "moves", "restores"} THEN Head(todo) ELSE {}

\* assertShowModeAllows: the keys of a verified write, the whole strip of a
\* copy, every entry of the batch undone.
ChecksFor(t, todo) ==
    IF t.does \in {"verifies", "restores"} THEN UNION {todo[i] : i \in DOMAIN todo}
    ELSE IF t.does = "moves" THEN {Sound}
    ELSE {}

\* The handler checks the keys itself where it must, then reads what it needs.
BeginTool ==
    /\ Stage("reading")
    /\ tc' = [tc EXCEPT !.stage =
        IF showMode /\ ~tc.confirm /\ \E k \in ChecksFor(tc.tool, tc.todo) : IsAudible(k) THEN "refused" ELSE "writing"]
    /\ UNCHANGED <<showMode, moved, listed, watched>>

UsesBulkSet(t) == t.does \in {"sets", "commands", "toggles", "verifies", "moves", "restores", "steers"}
Sending == Stage("writing") /\ tc.todo # << >> /\ UsesBulkSet(tc.tool)

\* WingOscClient.bulkSet records into the batch that is open, if any.
RecordWrite(keys) == listed' = IF HasBatch(tc.tool) THEN listed \cup keys ELSE listed

ToolAccepted ==
    /\ Sending
    /\ moved' = moved \cup Head(tc.todo)
    /\ RecordWrite(Head(tc.todo))
    /\ tc' = [tc EXCEPT !.todo = Tail(@)]
    /\ UNCHANGED <<showMode, watched>>

\* The console refuses a key: those before it are stored. Only a verified write
\* reads them again and records them.
ToolRejected ==
    /\ Sending
    /\ \E stored \in SUBSET Head(tc.todo) :
        /\ stored # Head(tc.todo)
        /\ moved' = moved \cup stored
        /\ IF tc.tool.does \in {"verifies", "restores"} THEN RecordWrite(stored) ELSE UNCHANGED listed
    /\ tc' = [tc EXCEPT !.acked = FALSE,
                        !.todo = Tail(@),
                        !.stage = IF tc.tool.does = "toggles" THEN "fallback" ELSE @]
    /\ UNCHANGED <<showMode, watched>>

\* The ack never comes: bulkSet throws, whether or not the write landed.
ToolLost ==
    /\ Sending
    /\ moved' \in {moved, moved \cup Head(tc.todo)}
    /\ tc' = [tc EXCEPT !.stage = "failed"]
    /\ UNCHANGED <<showMode, listed, watched>>

\* client.set: no ack, and nothing recorded. A toggle falls back to it; the tags
\* of a strip are always written so, and read back.
BareSet ==
    /\ Stage("fallback") \/ (Stage("writing") /\ tc.tool.does = "tags" /\ tc.todo # << >>)
    /\ \E lands \in BOOLEAN :
        /\ moved' = IF lands THEN moved \cup tc.tool.keys ELSE moved
        /\ tc' = [tc EXCEPT !.todo = << >>, !.stage = IF lands \/ Stage("fallback") THEN "writing" ELSE "failed"]
    /\ UNCHANGED <<showMode, listed, watched>>

AnswerTool ==
    /\ Stage("writing") /\ tc.todo = << >>
    /\ tc' = [tc EXCEPT !.stage = "answered"]
    /\ UNCHANGED <<showMode, moved, listed, watched>>

\* The next call; what the last one did has been looked at.
NextTool ==
    /\ tc.stage \in {"refused", "failed", "answered"}
    /\ tc' = NoToolCall /\ moved' = {} /\ listed' = {} /\ watched' = FALSE
    /\ UNCHANGED showMode

\* The operator switches show mode in the configuration.
SwitchShowMode ==
    /\ showMode' = ~showMode
    /\ watched' = FALSE
    /\ UNCHANGED <<tc, moved, listed>>

ToolCallsNext ==
    CallTool \/ BeginTool \/ ToolAccepted \/ ToolRejected \/ ToolLost \/ BareSet \/ AnswerTool \/ NextTool
    \/ SwitchShowMode

ToolCallsSpec == ToolCallsInit /\ [][ToolCallsNext]_toolVars
-----------------------------------------------------------------------------
\* While show mode is on, no call that was not confirmed changes anything but how
\* strips look and the surface, however the tool was classified (tools/index.ts).
UnconfirmedIsUnheard == watched /\ ~tc.confirm => moved \subseteq Looks \cup {Surface}

KeepsItsOwnUndo(t) == t.does \in {"steers", "commands", "keeps", "reads"}

\* tools/journal.ts says wing_history "Covers wing_set, wing_bulk_set and every
\* typed setter": so whatever a call that was answered, and had nothing refused,
\* changed at the console is listed, unless the tool keeps its own undo. (The tags
\* of a strip are written with a bare SET, which refutes it.)
HistoryCoversEverySetter ==
    Stage("answered") /\ tc.acked /\ ~KeepsItsOwnUndo(tc.tool) => moved \subseteq listed
=============================================================================
