------------------------------- MODULE Pruning ------------------------------
(***************************************************************************)
(* finalize_nodes drops links, nodes, inputs and outputs so that do_step   *)
(* has less to do.  Here the same programs run the same test on two        *)
(* fields: the one finalize_nodes leaves (the variables of Field) and one  *)
(* in which nothing is dropped (the variables prefixed full_).  The second *)
(* is what the README promises to simulate "exactly".  The fields do not   *)
(* interact, so the first runs to its end before the second starts.        *)
(***************************************************************************)
EXTENDS Field

VARIABLES
  full_links, full_linked, full_calls,
  full_out, full_t21, full_t30, full_idx, full_numeric, full_image,
  full_phase, full_todo, full_active, full_cycles, full_validated

fullVars ==
  <<full_links, full_linked, full_calls, full_out, full_t21, full_t30,
    full_idx, full_numeric, full_image, full_phase, full_todo, full_active,
    full_cycles, full_validated>>

Full ==
  INSTANCE Field WITH
    links <- full_links, linked <- full_linked, calls <- full_calls,
    out <- full_out, t21 <- full_t21, t30 <- full_t30, idx <- full_idx,
    numeric <- full_numeric, image <- full_image, phase <- full_phase,
    todo <- full_todo, active <- full_active, cycles <- full_cycles,
    validated <- full_validated

-----------------------------------------------------------------------------
(* Every useful node linked with every useful node and input next to it,   *)
(* and everything simulated.                                               *)
FullLinks(f) ==
  {l \in Slots : /\ useful(f, l[1])
                 /\ \/ useful(f, Neighbour(l[1], l[2]))
                    \/ l[2] = "up" /\ Neighbour(l[1], "up") \in Inputs}

FullLinked(f) == {o \in Numerics \cup Images : useful(f, Neighbour(o, "up"))}

FullCalls(f) ==
  {<<loop, n>> : loop \in {"step", "finalize"},
                 n \in {r \in Regular : useful(f, r)}}
    \cup {<<"input", i>> : i \in Inputs}
    \cup {<<"numeric", o>> : o \in Numerics \cap FullLinked(f)}
    \cup {<<"image", o>> : o \in Images \cap FullLinked(f)}

FullInit ==
  \E f \in Saves, t \in Tests :
    /\ Finalized(f)
    /\ Loaded(f, t)
    /\ full_links = FullLinks(f)
    /\ full_linked = FullLinked(f)
    /\ full_calls = FullCalls(f)
    /\ Full!Loaded(f, t)

PrunedRuns ==
  /\ phase = "running"
  /\ Handler \/ NextCycle \/ EndRun
  /\ UNCHANGED fullVars

FullRuns ==
  /\ phase = "ended"
  /\ Full!Handler \/ Full!NextCycle \/ Full!EndRun
  /\ UNCHANGED <<links, linked, calls, nodes, io, phase, todo, active, score>>

BothNext == PrunedRuns \/ FullRuns

BothSpec == FullInit /\ [][BothNext]_<<vars, fullVars>>

-----------------------------------------------------------------------------
BothEnded == phase = "ended" /\ full_phase = "ended"

Simulated == {n \in Regular : <<"step", n>> \in calls}

(* search_for_output spares a node for the HCF of another node only, so a  *)
(* node may be dropped although it would catch fire itself.                *)
DropsHcf ==
  \E n \in Regular \ Simulated : has_instr(save.code[n], "hcf")

(* Dropping links and nodes is invisible: the verdict is that of the whole *)
(* field, a validated test takes the same number of cycles, and when the   *)
(* runs are equally long every simulated node ends up in the same state    *)
(* (in_links, out_links, search_for_output, finalize_nodes).               *)
PruningInvisible ==
  BothEnded /\ ~DropsHcf =>
    /\ validated <=> full_validated
    /\ validated => cycles = full_cycles
    /\ cycles = full_cycles /\ ~Burnt =>
         \A n \in Simulated :
           /\ t21[n] = full_t21[n]
           /\ t30[n] = full_t30[n]
           /\ out[n] = full_out[n]

(* What the README says without exception: "exactly simulate the game".    *)
ExactSimulation == BothEnded => (validated <=> full_validated)
=============================================================================
