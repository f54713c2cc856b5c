----------------------------- MODULE Breakpoints -----------------------------
(***************************************************************************)
(* The BreakpointTranslator: the breakpoint table the driver owns and the  *)
(* whole set pushed to the core.  RunCliMode (src/GDB/DapMain.cpp) pushes  *)
(* the --break addresses with ids 1..n; the REPL (DebuggerCli,            *)
(* src/GDB/debugger_cli.cpp) then rebuilds its own table from the same    *)
(* addresses (AddInitialBreakpoint), and every break, watch and delete    *)
(* pushes the enabled entries again (SyncBreakpoints).  A push needs a    *)
(* debugger; the emulation may end at any time, after which there is      *)
(* none.  Addresses are model values: the parse is in AddressParsing.     *)
(***************************************************************************)
EXTENDS Naturals, Sequences

CONSTANTS
  Addrs,          \* addresses typed after "break" / "watch"
  InitialBreaks,  \* the --break addresses, in order
  MaxIds,         \* ids handed out by the REPL, at most
  DeleteIds       \* ids typed after "delete"

ASSUME InitialBreaks \in Seq(Addrs) /\ MaxIds \in Nat /\ DeleteIds \subseteq Nat

VARIABLES
  breakpoints,      \* DebuggerCli::_breakpoints
  nextBreakpointId, \* DebuggerCli::_nextBreakpointId
  coreBps,          \* the array last given to Debugger::SetBreakpoints
  dbgAlive,         \* _emu->GetDebugger(false) yields a debugger
  phase             \* "startup", "dispatch", "batch" or "repl"

vars == <<breakpoints, nextBreakpointId, coreBps, dbgAlive, phase>>

CliBreakpoint == [id : Nat, address : Addrs, isWatch : BOOLEAN, enabled : BOOLEAN]
CoreBreakpoint == [id : Nat, type : {"Execute", "Write"},
                   startAddr : Addrs, endAddr : Addrs, enabled : BOOLEAN]

TypeOK ==
  /\ breakpoints \in Seq(CliBreakpoint)
  /\ nextBreakpointId \in Nat \ {0}
  /\ coreBps \in Seq(CoreBreakpoint)
  /\ dbgAlive \in BOOLEAN
  /\ phase \in {"startup", "dispatch", "batch", "repl"}

Init ==
  /\ breakpoints = << >>
  /\ nextBreakpointId = 1
  /\ coreBps = << >>
  /\ dbgAlive = TRUE
  /\ phase = "startup"

\* The fields SyncBreakpoints fills in for one entry of the table.
ToCore(b) ==
  [id |-> b.id, type |-> IF b.isWatch THEN "Write" ELSE "Execute",
   startAddr |-> b.address, endAddr |-> b.address, enabled |-> TRUE]

\* Mutant: the table's entries reach the core as they are, not through the
\* BreakpointData layout.
SyncBreakpointsUntranslated(table) ==
  LET sel == SelectSeq(table, LAMBDA b : b.enabled)
  IN coreBps' = IF dbgAlive THEN sel ELSE coreBps

\* SyncBreakpoints: the enabled entries, in table order, replace the core's
\* set when there is a debugger.
SyncBreakpoints(table) ==
  LET sel == SelectSeq(table, LAMBDA b : b.enabled)
  IN coreBps' = IF dbgAlive THEN [i \in DOMAIN sel |-> ToCore(sel[i])]
                            ELSE coreBps

\* A new entry with the next id, as CmdBreak, CmdWatch and
\* AddInitialBreakpoint build it.
NewEntry(addr, watch) ==
  [id |-> nextBreakpointId, address |-> addr, isWatch |-> watch, enabled |-> TRUE]

-----------------------------------------------------------------------------
(* RunCliMode step 9, then step 10                                         *)

InitialPush ==
  /\ phase = "startup"
  /\ coreBps' = IF InitialBreaks # << >> /\ dbgAlive
                  THEN [i \in DOMAIN InitialBreaks |->
                          [id |-> i, type |-> "Execute",
                           startAddr |-> InitialBreaks[i],
                           endAddr |-> InitialBreaks[i], enabled |-> TRUE]]
                  ELSE coreBps
  /\ phase' = "dispatch"
  /\ UNCHANGED <<breakpoints, nextBreakpointId, dbgAlive>>

\* Step 10, --batch: BatchRunner leaves the breakpoints alone.
StartBatch ==
  /\ phase = "dispatch"
  /\ phase' = "batch"
  /\ UNCHANGED <<breakpoints, nextBreakpointId, coreBps, dbgAlive>>

\* Step 10: cli.AddInitialBreakpoint for each address, then
\* DebuggerCli::Run's SyncBreakpoints.
StartRepl ==
  LET table == [i \in DOMAIN InitialBreaks |->
                  [id |-> i, address |-> InitialBreaks[i],
                   isWatch |-> FALSE, enabled |-> TRUE]]
  IN /\ phase = "dispatch"
     /\ phase' = "repl"
     /\ breakpoints' = table
     /\ nextBreakpointId' = Len(InitialBreaks) + 1
     /\ SyncBreakpoints(table)
     /\ UNCHANGED dbgAlive

-----------------------------------------------------------------------------
(* REPL commands                                                           *)

\* Mutant: the id is taken as the table's length plus one.
CmdBreakBySize(addr) ==
  /\ phase = "repl"
  /\ nextBreakpointId <= MaxIds
  /\ LET e == [NewEntry(addr, FALSE) EXCEPT !.id = Len(breakpoints) + 1]
     IN /\ breakpoints' = Append(breakpoints, e)
        /\ SyncBreakpoints(Append(breakpoints, e))
  /\ nextBreakpointId' = nextBreakpointId + 1
  /\ UNCHANGED <<dbgAlive, phase>>

CmdBreak(addr) ==
  /\ phase = "repl"
  /\ nextBreakpointId <= MaxIds
  /\ breakpoints' = Append(breakpoints, NewEntry(addr, FALSE))
  /\ nextBreakpointId' = nextBreakpointId + 1
  /\ SyncBreakpoints(breakpoints')
  /\ UNCHANGED <<dbgAlive, phase>>

\* Mutant: the table grows but is not pushed.
CmdWatchNoSync(addr) ==
  /\ phase = "repl"
  /\ nextBreakpointId <= MaxIds
  /\ breakpoints' = Append(breakpoints, NewEntry(addr, TRUE))
  /\ nextBreakpointId' = nextBreakpointId + 1
  /\ UNCHANGED <<coreBps, dbgAlive, phase>>

CmdWatch(addr) ==
  /\ phase = "repl"
  /\ nextBreakpointId <= MaxIds
  /\ breakpoints' = Append(breakpoints, NewEntry(addr, TRUE))
  /\ nextBreakpointId' = nextBreakpointId + 1
  /\ SyncBreakpoints(breakpoints')
  /\ UNCHANGED <<dbgAlive, phase>>

\* remove_if then erase; "No breakpoint" and no push if nothing matched.
CmdDelete(id) ==
  LET kept == SelectSeq(breakpoints, LAMBDA b : b.id # id)
  IN /\ phase = "repl"
     /\ kept # breakpoints
     /\ breakpoints' = kept
     /\ SyncBreakpoints(kept)
     /\ UNCHANGED <<nextBreakpointId, dbgAlive, phase>>

CmdDeleteMissing(id) ==
  /\ phase = "repl"
  /\ \A i \in DOMAIN breakpoints : breakpoints[i].id # id
  /\ UNCHANGED vars

\* The emulation ends: from now on GetDebugger(false) yields nothing.
DebuggerGone ==
  /\ dbgAlive
  /\ dbgAlive' = FALSE
  /\ UNCHANGED <<breakpoints, nextBreakpointId, coreBps, phase>>

\* The batch run, or the REPL waiting for input, goes on.
Idle ==
  /\ phase \in {"batch", "repl"}
  /\ UNCHANGED vars

Next ==
  \/ InitialPush \/ StartBatch \/ StartRepl
  \/ \E a \in Addrs : CmdBreak(a) \/ CmdWatch(a)
  \/ \E id \in DeleteIds : CmdDelete(id) \/ CmdDeleteMissing(id)
  \/ DebuggerGone
  \/ Idle

Spec == Init /\ [][Next]_vars

-----------------------------------------------------------------------------
(* Properties                                                              *)

(* Every entry of the table has its own id, one that CmdBreak / CmdWatch  *)
(* has not yet handed out again: a "delete N" names exactly one           *)
(* breakpoint, across adds, deletes and the initial --break list.         *)
UniqueIds ==
  \A i, j \in DOMAIN breakpoints :
    /\ breakpoints[i].id < nextBreakpointId
    /\ i # j => breakpoints[i].id # breakpoints[j].id

(* While there is a debugger, the core's set is exactly the translation   *)
(* of the REPL's enabled entries, in table order (spec 4.2, 5: the core   *)
(* only ever receives whole-collection snapshots).                        *)
CoreMirrorsTable ==
  phase = "repl" /\ dbgAlive =>
    coreBps = LET sel == SelectSeq(breakpoints, LAMBDA b : b.enabled)
              IN [i \in DOMAIN sel |-> ToCore(sel[i])]

=============================================================================
