-------------------------- MODULE OutputManagement --------------------------
(***************************************************************************)
(* wlr-output-management as output-management.c uses it: the heads that    *)
(* the compositor reports, and configurations that resize them.            *)
(*                                                                         *)
(* A management is the state of the file (is there a wlr_output_manager,   *)
(* the list of heads, is last_config_serial the compositor's latest) with  *)
(* the heads that the compositor really has; events about them arrive one  *)
(* by one.  Sizes, positions and modes are left out.  A configuration is   *)
(* the set of heads that it enables and the set of those it disables; the  *)
(* compositor cancels it when its serial is not the latest.                *)
(***************************************************************************)
EXTENDS Naturals

CONSTANT Outputs        \* names of outputs that the compositor may have

RealStates == {"none", "disabled", "enabled"}
HeadStates == RealStates \cup {"new"}   \* "new": announced, but not its name and state

Managements == [manager : BOOLEAN, heads : [Outputs -> HeadStates], current : BOOLEAN,
                real : [Outputs -> RealStates]]

NoHeads == [o \in Outputs |-> "none"]
NoManagement == [manager |-> FALSE, heads |-> NoHeads, current |-> FALSE, real |-> NoHeads]

-----------------------------------------------------------------------------
(* The compositor.                                                         *)

\* wlr_output_manager_setup() on a compositor whose enabled outputs are outs;
\* the events that follow arrive in the roundtrip of wayland_connect().
ManagerSetup(outs) ==
    LET heads == [o \in Outputs |-> IF o \in outs THEN "enabled" ELSE "none"]
    IN  [manager |-> TRUE, heads |-> heads, current |-> TRUE, real |-> heads]

\* The compositor changes a head, if only its mode, and with it the serial.
HeadChanged(m, o, state) == [m EXCEPT !.real[o] = state, !.current = FALSE]

-----------------------------------------------------------------------------
(* output-management.c                                                     *)

\* wlr_output_manager_destroy(): heads are kept when the manager has finished.
ManagerDestroy(m) == IF m.manager THEN NoManagement ELSE [m EXCEPT !.real = NoHeads]

\* output_manager_finished()
ManagerFinished(m) == [m EXCEPT !.manager = FALSE]

\* Mutant of HeadNew: the serial is taken to be known.
HeadNewDone(m, o) == [m EXCEPT !.heads[o] = "new", !.current = TRUE]

\* output_manager_head()
HeadNew(m, o) == [m EXCEPT !.heads[o] = "new"]

\* output_head_name() and output_head_enabled()
HeadDescribed(m, o) == [m EXCEPT !.heads[o] = m.real[o]]

\* output_head_finished()
HeadFinished(m, o) == [m EXCEPT !.heads[o] = "none"]

\* output_manager_done()
ManagerDone(m) == [m EXCEPT !.current = TRUE]

\* wlr_output_manager_configure_output(): a headless output with a named head
Configurable(m, o, headless) == o \in headless /\ m.heads[o] \in {"disabled", "enabled"}

\* wlr_output_manager_commit_config() of a configuration with the outputs outs;
\* head->enabled is false until it has been described.
CommitConfig(m, outs) ==
    [enable |-> outs, disable |-> {o \in Outputs : m.heads[o] \in {"new", "disabled"}}]

\* The heads that there are, in the given states
HeadsIn(m, states) == {o \in Outputs : m.real[o] \in states}

\* A configuration that the compositor does not cancel fits the heads it has:
\* none that it enables is gone, and those it disables are the disabled ones.
Fits(m, config) ==
    m.current =>
        /\ config.enable \subseteq HeadsIn(m, {"disabled", "enabled"})
        /\ config.disable = HeadsIn(m, {"disabled"})

\* The protocol wants each head to be named once, and none to be left out.
NoneTwice(m, config) == m.current => config.enable \cap config.disable = {}
NoneOmitted(m, config) ==
    m.current => config.enable \cup config.disable = HeadsIn(m, {"disabled", "enabled"})
=============================================================================
