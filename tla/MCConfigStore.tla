---------------------------- MODULE MCConfigStore -----------------------------
(* A title with two slots, two config values, two files somebody might leave. *)
EXTENDS ConfigStore

MCSlotSeq == <<"docked_cpu", "handheld_gpu">>
MCKvalSeq == <<"ThermalThrottleThreshold", "ThermalThrottle">>

\* An invalid value, a key nobody knows, a section that is no title; and a file
\* with the titles first.
MCEdits ==
    {<<Other, SectionLine("values"), ValueLine("ThermalThrottleThreshold", 0),
       ValueLine("ThermalThrottle", 0), ValueLine("unknown", 1),
       SectionLine("not a title"), ValueLine("docked_cpu", 9)>>,
     <<SectionLine("title"), ValueLine("docked_cpu", 1020),
       ValueLine("handheld_gpu", 0), Other, SectionLine("values"),
       ValueLine("ThermalThrottleThreshold", 80)>>}

\* The hypothesis of the theorems of ConfigStoreProofs.
ASSUME MCTidyEdits == TidyEdits
==============================================================================
