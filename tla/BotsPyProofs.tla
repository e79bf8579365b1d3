---------------------------- MODULE BotsPyProofs ----------------------------
(***************************************************************************)
(* Proofs about BotsPy for any set of bots, commands and lists: startup    *)
(* and shutdown of the dispatcher come in pairs (LifecyclePaired, through  *)
(* LifeInv), and concurrent syncs lose no command (ListsKept, through      *)
(* SyncInv).                                                               *)
(***************************************************************************)
EXTENDS BotsPy, TLAPS

-----------------------------------------------------------------------------
(* The syncs of a bot.                                                     *)

(* A sync keeps its shape, whichever field of it is set.                   *)
LEMMA RunFields ==
    /\ Idle \in Runs /\ Idle.at = "idle" /\ Idle.i = 1
    /\ \A r \in Runs, a \in {"idle", "sleep", "list", "put"} : [r EXCEPT !.at = a] \in Runs
    /\ \A r \in Runs, i \in 1 .. Lists : [r EXCEPT !.i = i] \in Runs
    /\ \A r \in Runs, s \in SUBSET (Commands \cup {Foreign}) : [r EXCEPT !.seen = s] \in Runs
    /\ \A r \in Runs, s \in SUBSET Commands : [r EXCEPT !.want = s] \in Runs
  <1>1. Idle \in Runs /\ Idle.at = "idle" /\ Idle.i = 1
    BY BotsAssumption DEF Idle, Runs
  <1>2. /\ \A r \in Runs, a \in {"idle", "sleep", "list", "put"} : [r EXCEPT !.at = a] \in Runs
        /\ \A r \in Runs, i \in 1 .. Lists : [r EXCEPT !.i = i] \in Runs
        /\ \A r \in Runs, s \in SUBSET (Commands \cup {Foreign}) : [r EXCEPT !.seen = s] \in Runs
        /\ \A r \in Runs, s \in SUBSET Commands : [r EXCEPT !.want = s] \in Runs
    BY Zenon DEF Runs
  <1> QED BY <1>1, <1>2

(* A sync that begins, sleeps, looks at a list, or goes on to the next.    *)
LEMMA RunShapes ==
    /\ [Idle EXCEPT !.at = "sleep"] \in Runs /\ [Idle EXCEPT !.at = "sleep"].at = "sleep"
    /\ \A s \in SUBSET Commands :
         /\ [Idle EXCEPT !.at = "list", !.want = s] \in Runs
         /\ [Idle EXCEPT !.at = "list", !.want = s].want = s
         /\ [Idle EXCEPT !.at = "list", !.want = s].i = 1
    /\ \A r \in Runs, s \in SUBSET (Commands \cup {Foreign}) :
         /\ [r EXCEPT !.at = "put", !.seen = s] \in Runs
         /\ [r EXCEPT !.at = "put", !.seen = s].at = "put"
         /\ [r EXCEPT !.at = "put", !.seen = s].want = r.want
         /\ [r EXCEPT !.at = "put", !.seen = s].i = r.i
    /\ \A r \in Runs : r.i < Lists =>
         /\ NextList(r) \in Runs /\ NextList(r).at = "list"
         /\ NextList(r).want = r.want /\ NextList(r).i = r.i + 1
  <1>0. Lists \in Nat
    BY BotsAssumption
  <1>1. [Idle EXCEPT !.at = "sleep"] \in Runs /\ [Idle EXCEPT !.at = "sleep"].at = "sleep"
    BY RunFields DEF Idle
  <1>2. ASSUME NEW s \in SUBSET Commands
        PROVE  /\ [Idle EXCEPT !.at = "list", !.want = s] \in Runs
               /\ [Idle EXCEPT !.at = "list", !.want = s].want = s
               /\ [Idle EXCEPT !.at = "list", !.want = s].i = 1
    <2>1. [Idle EXCEPT !.at = "list"] \in Runs
      BY RunFields
    <2>2. [Idle EXCEPT !.at = "list", !.want = s] \in Runs
      BY Zenon, <2>1, RunFields
    <2> QED BY <2>2 DEF Idle
  <1>3. ASSUME NEW r \in Runs, NEW s \in SUBSET (Commands \cup {Foreign})
        PROVE  /\ [r EXCEPT !.at = "put", !.seen = s] \in Runs
               /\ [r EXCEPT !.at = "put", !.seen = s].at = "put"
               /\ [r EXCEPT !.at = "put", !.seen = s].want = r.want
               /\ [r EXCEPT !.at = "put", !.seen = s].i = r.i
    BY DEF Runs
  <1>4. ASSUME NEW r \in Runs, r.i < Lists
        PROVE  /\ NextList(r) \in Runs /\ NextList(r).at = "list"
               /\ NextList(r).want = r.want /\ NextList(r).i = r.i + 1
    <2>0. r.i + 1 \in 1 .. Lists
      BY <1>0, <1>4 DEF Runs
    <2>1. [r EXCEPT !.at = "list"] \in Runs
      BY RunFields
    <2>2. [r EXCEPT !.at = "list", !.i = r.i + 1] \in Runs
      BY Zenon, <2>0, <2>1, RunFields
    <2>3. {} \in SUBSET (Commands \cup {Foreign})
      OBVIOUS
    <2>4. [r EXCEPT !.at = "list", !.i = r.i + 1, !.seen = {}] \in Runs
      BY Zenon, <2>2, <2>3, RunFields
    <2>5. NextList(r) = [r EXCEPT !.at = "list", !.i = r.i + 1, !.seen = {}]
      BY DEF Runs, NextList
    <2>6. /\ [r EXCEPT !.at = "list", !.i = r.i + 1, !.seen = {}].at = "list"
          /\ [r EXCEPT !.at = "list", !.i = r.i + 1, !.seen = {}].want = r.want
          /\ [r EXCEPT !.at = "list", !.i = r.i + 1, !.seen = {}].i = r.i + 1
      BY DEF Runs
    <2> QED BY <2>4, <2>5, <2>6
  <1> QED BY <1>1, <1>2, <1>3, <1>4

RunTypes == [Bots -> [Workers -> Runs]]

(* One sync of one bot changes.                                            *)
RunSet(b, w, r) ==
    /\ run'[b][w] = r /\ \A v \in Workers : v # w => run'[b][v] = run[b][v]
    /\ \A c \in Bots : c # b => run'[c] = run[c]

LEMMA SetRun ==
    ASSUME run \in RunTypes, NEW b \in Bots, NEW w \in Workers, NEW r \in Runs,
           run' = [run EXCEPT ![b][w] = r]
    PROVE  run' \in RunTypes /\ RunSet(b, w, r)
  <1>1. run' = [run EXCEPT ![b] = [run[b] EXCEPT ![w] = r]]
    OBVIOUS
  <1>2. [run[b] EXCEPT ![w] = r] \in [Workers -> Runs]
    BY DEF RunTypes
  <1>3. run' \in RunTypes
    BY <1>1, <1>2 DEF RunTypes
  <1>4. run'[b] = [run[b] EXCEPT ![w] = r] /\ \A c \in Bots : c # b => run'[c] = run[c]
    BY <1>1 DEF RunTypes
  <1>5. run'[b][w] = r /\ \A v \in Workers : v # w => run'[b][v] = run[b][v]
    BY <1>4 DEF RunTypes
  <1> QED BY <1>3, <1>4, <1>5 DEF RunSet

(* The syncs of a bot that ends are gone.                                  *)
LEMMA ClearRun ==
    ASSUME run \in RunTypes, NEW b \in Bots, run' = [run EXCEPT ![b] = [w \in Workers |-> Idle]]
    PROVE  /\ run' \in RunTypes /\ \A w \in Workers : run'[b][w] = Idle
           /\ \A c \in Bots : c # b => run'[c] = run[c]
  BY RunFields DEF RunTypes

(* A rate limit leaves a retry task that sleeps, or the one that is there. *)
LEMMA ScheduleRun ==
    ASSUME run \in RunTypes, NEW b \in Bots, NEW w \in Workers, _schedule_command_sync_retry(b, w)
    PROVE  /\ run' \in RunTypes
           /\ \A v \in Workers : run'[b][v] \in {run[b][v], Idle, [Idle EXCEPT !.at = "sleep"]}
           /\ \A c \in Bots : c # b => run'[c] = run[c]
  <1> DEFINE f == [v \in Workers |->
               IF v = "retry"
               THEN IF w = "loop" /\ run[b]["retry"].at # "idle" THEN run[b][v]
                    ELSE [Idle EXCEPT !.at = "sleep"]
               ELSE IF w = "loop" THEN Idle ELSE run[b][v]]
  <1>1. run' = [run EXCEPT ![b] = f]
    BY DEF _schedule_command_sync_retry
  <1>2. \A v \in Workers : f[v] \in {run[b][v], Idle, [Idle EXCEPT !.at = "sleep"]}
    OBVIOUS
  <1>3. f \in [Workers -> Runs]
    <2>1. Idle \in Runs /\ [Idle EXCEPT !.at = "sleep"] \in Runs
      BY RunFields, RunShapes
    <2>2. \A v \in Workers : run[b][v] \in Runs
      BY DEF RunTypes
    <2>3. \A v \in Workers : f[v] \in Runs
      BY <1>2, <2>1, <2>2
    <2> QED BY <2>3
  <1> HIDE DEF f
  <1>4. run' \in RunTypes /\ run'[b] = f /\ \A c \in Bots : c # b => run'[c] = run[c]
    BY <1>1, <1>3 DEF RunTypes
  <1> QED BY <1>2, <1>4

-----------------------------------------------------------------------------
(* Type correctness.                                                       *)

LEMMA InitTypes == Init => TypeOK
  <1> SUFFICES ASSUME Init PROVE TypeOK
    OBVIOUS
  <1>1. LifeTypes
    <2>1. pc \in [Bots -> Places] /\ active \subseteq Bots
      BY DEF Init, Places
    <2>2. stopping \in [Bots -> BOOLEAN] /\ started \in BOOLEAN
      BY Zenon DEF Init
    <2>4. doubled \in BOOLEAN /\ raced \in BOOLEAN /\ broken \in BOOLEAN
      BY Zenon DEF Init
    <2>3. starts \in 0 .. MaxStarts /\ ups \in Nat
      BY BotsAssumption DEF Init
    <2> QED BY <2>1, <2>2, <2>3, <2>4 DEF LifeTypes
  <1>2. run \in [Bots -> [Workers -> Runs]]
    BY RunFields DEF Init
  <1>3. CommandTypes
    BY <1>2, BotsAssumption DEF Init, CommandTypes
  <1> QED BY <1>1, <1>3, BotsAssumption DEF Init, TypeOK

(* What a bot's task does to the dispatcher.                               *)
LEMMA StepLifeTypes ==
    ASSUME TypeOK, [Next]_vars
    PROVE  LifeTypes'
  <1>0. LifeTypes
    BY DEF TypeOK
  <1>1. ASSUME NEW b \in Bots, start_polling(b) PROVE LifeTypes'
    <2>1. pc' \in [Bots -> Places]
      BY <1>0, <1>1 DEF start_polling, Goto, LifeTypes, Places
    <2>2. starts' \in 0 .. MaxStarts
      BY <1>0, <1>1, BotsAssumption DEF start_polling, LifeTypes
    <2>3. stopping' \in [Bots -> BOOLEAN] /\ active' \subseteq Bots /\ doubled' \in BOOLEAN /\ raced' \in BOOLEAN
      BY <1>0, <1>1, Zenon DEF start_polling, LifeTypes
    <2>4. UNCHANGED <<started, ups, broken>>
      BY <1>1 DEF start_polling
    <2> QED BY <1>0, <2>1, <2>2, <2>3, <2>4 DEF LifeTypes
  <1>2. ASSUME NEW b \in Bots, startup(b) \/ shutdown(b) PROVE LifeTypes'
    <2>1. pc' \in [Bots -> Places]
      BY <1>0, <1>2 DEF startup, shutdown, Goto, LifeTypes, Places
    <2>2. ups' \in Nat
      BY <1>0, <1>2 DEF startup, shutdown, LifeTypes
    <2>3. started' \in BOOLEAN /\ doubled' \in BOOLEAN /\ broken' \in BOOLEAN
          /\ UNCHANGED <<stopping, active, starts, raced>>
      BY <1>0, <1>2 DEF startup, shutdown, LifeTypes
    <2> QED BY <1>0, <2>1, <2>2, <2>3 DEF LifeTypes
  <1>3. ASSUME NEW b \in Bots, startupRaises(b) \/ shutdownRaises(b) PROVE LifeTypes'
    <2>1. pc' \in [Bots -> Places]
      BY <1>0, <1>3 DEF startupRaises, shutdownRaises, Goto, LifeTypes, Places
    <2> QED BY <1>0, <1>3, <2>1 DEF startupRaises, shutdownRaises, LifeTypes
  <1>4. ASSUME NEW b \in Bots, BotEnds(b) \/ LoopRaises(b) PROVE LifeTypes'
    <2>1. pc' \in [Bots -> Places] /\ active' \subseteq Bots
      BY <1>0, <1>4 DEF BotEnds, LoopRaises, Ends, Goto, LifeTypes, Places
    <2>2. UNCHANGED <<stopping, started, starts, ups, doubled, raced, broken>>
      BY <1>4 DEF BotEnds, LoopRaises
    <2> QED BY <1>0, <2>1, <2>2 DEF LifeTypes
  <1>5. ASSUME NEW b \in Bots, stop(b) PROVE LifeTypes'
    BY <1>0, <1>5 DEF stop, LifeTypes
  <1>6. CASE UNCHANGED life
    BY <1>0, <1>6 DEF life, LifeTypes
  <1> QED BY ZenonT(40), <1>1, <1>2, <1>3, <1>4, <1>5, <1>6
      DEF Next, _handle_ready, sync_application_commands, Syncs, RetryWakes, ListsCommands, OverwritesCommands, RetryRaises,
          RateLimited, ForeignEdit, slash_command, vars

(* What the syncs do to the lists.                                         *)
LEMMA AdvanceTypes ==
    ASSUME CommandTypes, NEW b \in Bots, NEW w \in Workers, Advances(b, w)
    PROVE  run' \in RunTypes /\ synced' \in [Bots -> SUBSET Commands]
  <1>0. run \in RunTypes /\ run[b][w] \in Runs /\ Idle \in Runs
    BY RunFields DEF CommandTypes, RunTypes
  <1>1. CASE /\ run[b][w].i < Lists /\ UNCHANGED synced
             /\ run' = [run EXCEPT ![b][w] = NextList(run[b][w])]
    <2>1. NextList(run[b][w]) \in Runs
      BY <1>0, <1>1, RunShapes
    <2> QED BY <1>0, <1>1, <2>1, SetRun DEF CommandTypes
  <1>2. CASE /\ run' = [run EXCEPT ![b][w] = Idle]
             /\ synced' = [synced EXCEPT ![b] = synced[b] \cup run[b][w].want]
    <2>1. run[b][w].want \subseteq Commands
      BY <1>0 DEF Runs
    <2>2. synced' \in [Bots -> SUBSET Commands]
      BY <1>2, <2>1 DEF CommandTypes
    <2> QED BY <1>0, <1>2, <2>2, SetRun
  <1> QED BY <1>0, <1>1, <1>2 DEF Advances

LEMMA StepCommandTypes ==
    ASSUME TypeOK, [Next]_vars
    PROVE  CommandTypes'
  <1>0. CommandTypes /\ run \in RunTypes /\ Idle \in Runs
    BY RunFields DEF TypeOK, CommandTypes, RunTypes
  <1>1. ASSUME run' \in RunTypes,
               UNCHANGED <<remote, synced, edited, registered, dropped, late, clash>>,
               ready' \subseteq Bots, syncs' \in 0 .. MaxSyncs
        PROVE  CommandTypes'
    BY <1>0, <1>1 DEF CommandTypes, RunTypes
  <1>2. \A b \in Bots : Begun(b) \in Runs
    BY <1>0, RunShapes DEF Begun, CommandTypes
  <1>3. "loop" \in Workers /\ "retry" \in Workers
    BY DEF Workers
  <1>4. ASSUME NEW b \in Bots, stop(b) PROVE CommandTypes'
    BY <1>0, <1>1, <1>3, <1>4, SetRun DEF stop, CommandTypes
  <1>5. ASSUME NEW b \in Bots, BotEnds(b) \/ LoopRaises(b) PROVE CommandTypes'
    BY <1>0, <1>1, <1>5, ClearRun DEF BotEnds, LoopRaises, Ends, CommandTypes
  <1>6. ASSUME NEW b \in Bots, _handle_ready(b) PROVE CommandTypes'
    <2>1. run' \in RunTypes
      BY <1>0, <1>2, <1>3, <1>6, SetRun DEF _handle_ready
    <2> QED BY <1>0, <1>1, <1>6, <2>1 DEF _handle_ready, CommandTypes
  <1>15. ASSUME NEW b \in Bots, sync_application_commands(b) PROVE CommandTypes'
    <2>1. run' \in RunTypes
      BY <1>0, <1>2, <1>3, <1>15, SetRun DEF sync_application_commands
    <2>2. syncs' \in 0 .. MaxSyncs
      BY <1>0, <1>15, BotsAssumption DEF sync_application_commands, CommandTypes
    <2> QED BY <1>0, <1>1, <1>15, <2>1, <2>2 DEF sync_application_commands, CommandTypes
  <1>7. ASSUME NEW b \in Bots, RetryWakes(b) PROVE CommandTypes'
    BY <1>0, <1>1, <1>2, <1>3, <1>7, SetRun DEF RetryWakes, CommandTypes
  <1>8. ASSUME NEW b \in Bots, NEW w \in Workers, ListsCommands(b, w) PROVE CommandTypes'
    <2>1. run[b][w] \in Runs /\ remote[b][run[b][w].i] \in SUBSET (Commands \cup {Foreign})
      <3>1. run[b][w] \in Runs
        BY <1>0 DEF RunTypes
      <3>2. run[b][w].i \in 1 .. Lists
        BY <3>1 DEF Runs
      <3>3. remote[b] \in [1 .. Lists -> SUBSET (Commands \cup {Foreign})]
        BY <1>0 DEF CommandTypes
      <3> QED BY <3>1, <3>2, <3>3
    <2>2. CASE /\ UNCHANGED synced
               /\ run' = [run EXCEPT ![b][w] = [run[b][w] EXCEPT !.at = "put",
                                                                 !.seen = remote[b][run[b][w].i]]]
      <3>1. [run[b][w] EXCEPT !.at = "put", !.seen = remote[b][run[b][w].i]] \in Runs
        BY <2>1, RunShapes
      <3>2. run' \in RunTypes
        BY <1>0, <2>2, <3>1, SetRun
      <3> QED BY <1>0, <1>1, <1>8, <2>2, <3>2 DEF ListsCommands, CommandTypes
    <2>3. CASE Advances(b, w)
      <3>1. run' \in RunTypes /\ synced' \in [Bots -> SUBSET Commands]
        BY <1>0, <2>3, AdvanceTypes
      <3> QED BY <1>0, <1>8, <3>1 DEF ListsCommands, CommandTypes, RunTypes
    <2> QED BY <1>8, <2>2, <2>3 DEF ListsCommands
  <1>9. ASSUME NEW b \in Bots, NEW w \in Workers, OverwritesCommands(b, w) PROVE CommandTypes'
    <2> DEFINE r == run[b][w]
    <2>1. r \in Runs
      BY <1>0 DEF RunTypes
    <2>2. _resolve_command_sync_payload(r.seen, r.want) \in SUBSET (Commands \cup {Foreign})
      BY <2>1 DEF _resolve_command_sync_payload, Runs
    <2>3. remote' = [remote EXCEPT ![b] = [remote[b] EXCEPT ![r.i] =
                        _resolve_command_sync_payload(r.seen, r.want)]]
      BY <1>9 DEF OverwritesCommands
    <2>4. [remote[b] EXCEPT ![r.i] = _resolve_command_sync_payload(r.seen, r.want)]
          \in [1 .. Lists -> SUBSET (Commands \cup {Foreign})]
      BY <1>0, <2>2 DEF CommandTypes
    <2>5. remote' \in [Bots -> [1 .. Lists -> SUBSET (Commands \cup {Foreign})]]
      BY <1>0, <2>3, <2>4 DEF CommandTypes
    <2>6. clash' \in [Bots -> BOOLEAN]
      BY <1>0, <1>9, Zenon DEF OverwritesCommands, CommandTypes
    <2>7. run' \in RunTypes /\ synced' \in [Bots -> SUBSET Commands]
      BY <1>0, <1>9, AdvanceTypes DEF OverwritesCommands
    <2> QED BY <1>0, <1>9, <2>5, <2>6, <2>7 DEF OverwritesCommands, CommandTypes, RunTypes
  <1>10. ASSUME NEW b \in Bots, NEW w \in Workers, RateLimited(b, w) PROVE CommandTypes'
    BY <1>0, <1>1, <1>10, ScheduleRun DEF RateLimited, CommandTypes
  <1>11. ASSUME NEW b \in Bots, RetryRaises(b) PROVE CommandTypes'
    <2>1. run' \in RunTypes
      BY <1>0, <1>3, <1>11, SetRun DEF RetryRaises
    <2>2. dropped' \in [Bots -> BOOLEAN]
      BY <1>0, <1>11, Zenon DEF RetryRaises, CommandTypes
    <2> QED BY <1>0, <1>11, <2>1, <2>2 DEF RetryRaises, CommandTypes, RunTypes
  <1>12. ASSUME NEW b \in Bots, ForeignEdit(b, 1) PROVE CommandTypes'
    <2>0. 1 \in 1 .. Lists
      BY BotsAssumption
    <2>1. remote' = [remote EXCEPT ![b] = [remote[b] EXCEPT ![1] = remote[b][1] \cup {Foreign}]]
      BY <1>12 DEF ForeignEdit
    <2>2. [remote[b] EXCEPT ![1] = remote[b][1] \cup {Foreign}]
          \in [1 .. Lists -> SUBSET (Commands \cup {Foreign})]
      <3>1. remote[b] \in [1 .. Lists -> SUBSET (Commands \cup {Foreign})]
        BY <1>0 DEF CommandTypes
      <3>2. remote[b][1] \cup {Foreign} \in SUBSET (Commands \cup {Foreign})
        BY <2>0, <3>1
      <3> QED BY <2>0, <3>1, <3>2
    <2>3. remote' \in [Bots -> [1 .. Lists -> SUBSET (Commands \cup {Foreign})]]
      BY <1>0, <2>1, <2>2 DEF CommandTypes
    <2>4. edited' \in [Bots -> SUBSET (1 .. Lists)]
      BY <1>0, <1>12, <2>0 DEF ForeignEdit, CommandTypes
    <2> QED BY <1>0, <1>12, <2>3, <2>4 DEF ForeignEdit, CommandTypes
  <1>13. ASSUME NEW b \in Bots, NEW c \in Commands, slash_command(b, c) PROVE CommandTypes'
    <2>1. registered' \in [Bots -> SUBSET Commands]
      BY <1>0, <1>13 DEF slash_command, CommandTypes
    <2>2. late' \in [Bots -> BOOLEAN]
      BY <1>0, <1>13, Zenon DEF slash_command, CommandTypes
    <2> QED BY <1>0, <1>13, <2>1, <2>2 DEF slash_command, CommandTypes
  <1>14. ASSUME UNCHANGED commands PROVE CommandTypes'
    BY <1>0, <1>14 DEF commands, CommandTypes
  <1> QED BY <1>4, <1>5, <1>6, <1>7, <1>8, <1>9, <1>10, <1>11, <1>12, <1>13, <1>14, <1>15
      DEF Next, Syncs, start_polling, startup, startupRaises, shutdown, shutdownRaises, vars

(* Type correctness.                                                       *)
THEOREM TypeCorrect == Spec => []TypeOK
  <1>1. ASSUME TypeOK, [Next]_vars PROVE mode' \in {"merge", "replace"} /\ faults' \in 0 .. MaxFaults
    <2>1. UNCHANGED mode
      BY ZenonT(40), <1>1 DEF Next, start_polling, startup, startupRaises, shutdown, shutdownRaises, stop, BotEnds,
         _handle_ready, sync_application_commands,
         Syncs, RetryWakes, ListsCommands, OverwritesCommands, RetryRaises, LoopRaises, RateLimited,
         ForeignEdit, slash_command, vars
    <2>2. UNCHANGED faults \/ Fault
      BY ZenonT(40), <1>1 DEF Next, start_polling, startup, startupRaises, shutdown, shutdownRaises, stop, BotEnds,
         _handle_ready, sync_application_commands,
         Syncs, RetryWakes, ListsCommands, OverwritesCommands, RetryRaises, LoopRaises, RateLimited,
         ForeignEdit, slash_command, vars
    <2> QED BY <1>1, <2>1, <2>2, BotsAssumption DEF Fault, TypeOK
  <1>2. TypeOK /\ [Next]_vars => TypeOK'
    BY <1>1, StepLifeTypes, StepCommandTypes DEF TypeOK
  <1> QED BY <1>2, InitTypes, PTL DEF Spec

-----------------------------------------------------------------------------
(* Startups and shutdowns.                                                 *)

(* One bot moves on.                                                       *)
LEMMA Moves ==
    ASSUME pc \in [Bots -> Places], NEW b \in Bots, NEW p, Goto(b, p)
    PROVE  pc'[b] = p /\ \A c \in Bots : c # b => pc'[c] = pc[c]
  BY DEF Goto

PairInv == ActiveBots /\ ShutdownAlone /\ HalfOfPair /\ SomebodyShutsDown

(* Who may shut down, and who has to.  A bot that starts finds shutdown    *)
(* handlers running only if they race, and startup handlers only if these  *)
(* are doubled.                                                            *)
LEMMA StartPolling ==
    ASSUME LifeTypes, PairInv, NEW b \in Bots, start_polling(b)
    PROVE  PairInv'
  <1> DEFINE p == IF started THEN "run" ELSE "startup"
  <1>1. pc'[b] = p /\ \A c \in Bots : c # b => pc'[c] = pc[c]
    BY Moves DEF LifeTypes, start_polling
  <1>2. active' = active \cup {b} /\ UNCHANGED <<started, ups, broken>>
    BY DEF start_polling
  <1>3. ~raced' => ~raced /\ \A c \in Bots : pc[c] # "shutdown"
    BY DEF start_polling
  <1>4. doubled' = (doubled \/ \E c \in Bots : pc[c] = "startup")
    BY DEF start_polling
  <1>5. ActiveBots'
    BY <1>1, <1>2 DEF PairInv, ActiveBots
  <1>6. ShutdownAlone'
    BY <1>1, <1>3 DEF ShutdownAlone
  <1>7. HalfOfPair'
    <2> SUFFICES ASSUME ~raced' PROVE HalfOfPair'
      BY DEF HalfOfPair
    <2>0. /\ \A c \in Bots : pc[c] \in {"run", "shutdown"} => started
          /\ \A c \in Bots : pc[c] = "startup" => ~started \/ doubled
          /\ \A c, d \in Bots : c # d /\ pc[c] = "startup" /\ pc[d] = "startup" => doubled
          /\ started <=> ups > 0
          /\ ups > 1 => doubled
      BY <1>3 DEF PairInv, HalfOfPair
    <2>1. \A c \in Bots : pc'[c] \in {"run", "shutdown"} => started'
      BY <1>1, <1>2, <2>0
    <2>2. \A c \in Bots : pc'[c] = "startup" => ~started' \/ doubled'
      BY <1>1, <1>2, <1>4, <2>0
    <2>3. \A c, d \in Bots : c # d /\ pc'[c] = "startup" /\ pc'[d] = "startup" => doubled'
      BY <1>1, <1>4
    <2>4. (started' <=> ups' > 0) /\ (ups' > 1 => doubled')
      BY <1>2, <1>4, <2>0
    <2> QED BY <2>1, <2>2, <2>3, <2>4 DEF HalfOfPair
  <1>8. SomebodyShutsDown'
    BY <1>1 DEF SomebodyShutsDown
  <1> QED BY <1>5, <1>6, <1>7, <1>8 DEF PairInv

LEMMA StartupPair ==
    ASSUME LifeTypes, PairInv, NEW b \in Bots, startup(b)
    PROVE  PairInv'
  <1>1. pc'[b] = "run" /\ \A c \in Bots : c # b => pc'[c] = pc[c]
    BY Moves DEF LifeTypes, startup
  <1>2. /\ pc[b] = "startup" /\ started' = TRUE /\ ups' = ups + 1
        /\ UNCHANGED <<active, doubled, raced, broken>>
    BY DEF startup
  <1>3. ActiveBots'
    BY <1>1, <1>2 DEF PairInv, ActiveBots
  <1>4. ShutdownAlone'
    BY <1>1, <1>2 DEF PairInv, ShutdownAlone
  <1>5. HalfOfPair'
    <2> SUFFICES ASSUME ~raced PROVE HalfOfPair'
      BY <1>2 DEF HalfOfPair
    <2>1. \A c \in Bots : c # b /\ pc[c] = "startup" => doubled
      BY <1>2 DEF PairInv, HalfOfPair
    <2>2. ups > 0 => doubled
      BY <1>2 DEF PairInv, HalfOfPair
    <2>3. ups' > 0 /\ (ups' > 1 => doubled')
      BY <1>2, <2>2 DEF LifeTypes
    <2> QED BY <1>1, <1>2, <2>1, <2>3 DEF HalfOfPair
  <1>6. SomebodyShutsDown'
    BY <1>1 DEF SomebodyShutsDown
  <1> QED BY <1>3, <1>4, <1>5, <1>6 DEF PairInv

LEMMA StartupRaisesPair ==
    ASSUME LifeTypes, PairInv, NEW b \in Bots, startupRaises(b)
    PROVE  PairInv'
  <1>1. pc'[b] = "raised" /\ \A c \in Bots : c # b => pc'[c] = pc[c]
    BY Moves DEF LifeTypes, startupRaises
  <1>2. pc[b] = "startup" /\ UNCHANGED <<active, started, ups, doubled, raced, broken>>
    BY DEF startupRaises
  <1>3. ActiveBots'
    BY <1>1, <1>2 DEF PairInv, ActiveBots
  <1>4. ShutdownAlone'
    BY <1>1, <1>2 DEF PairInv, ShutdownAlone
  <1>5. HalfOfPair'
    BY <1>1, <1>2 DEF PairInv, HalfOfPair
  <1>6. SomebodyShutsDown'
    BY <1>1 DEF SomebodyShutsDown
  <1> QED BY <1>3, <1>4, <1>5, <1>6 DEF PairInv

LEMMA ShutdownPair ==
    ASSUME LifeTypes, PairInv, NEW b \in Bots, shutdown(b)
    PROVE  PairInv'
  <1>1. pc'[b] = "done" /\ \A c \in Bots : c # b => pc'[c] = pc[c]
    BY Moves DEF LifeTypes, shutdown
  <1>2. /\ pc[b] = "shutdown" /\ started' = FALSE /\ ups' = 0
        /\ UNCHANGED <<active, raced>>
    BY DEF shutdown
  <1>3. ASSUME ~raced, NEW c \in Bots PROVE pc'[c] \in {"off", "done"}
    BY <1>1, <1>2, <1>3 DEF PairInv, ShutdownAlone
  <1>4. ActiveBots'
    BY <1>1, <1>2 DEF PairInv, ActiveBots
  <1>5. ShutdownAlone'
    BY <1>2, <1>3 DEF ShutdownAlone
  <1>6. HalfOfPair'
    BY <1>2, <1>3 DEF HalfOfPair
  <1>7. SomebodyShutsDown'
    BY <1>2 DEF SomebodyShutsDown
  <1> QED BY <1>4, <1>5, <1>6, <1>7 DEF PairInv

(* A shutdown that raises leaves the dispatcher started.                   *)
LEMMA ShutdownRaisesPair ==
    ASSUME LifeTypes, PairInv, NEW b \in Bots, shutdownRaises(b)
    PROVE  PairInv'
  <1>1. pc'[b] = "done" /\ \A c \in Bots : c # b => pc'[c] = pc[c]
    BY Moves DEF LifeTypes, shutdownRaises
  <1>2. /\ pc[b] = "shutdown" /\ broken' = TRUE
        /\ UNCHANGED <<active, started, ups, doubled, raced>>
    BY DEF shutdownRaises
  <1>3. ActiveBots'
    BY <1>1, <1>2 DEF PairInv, ActiveBots
  <1>4. ShutdownAlone'
    BY <1>1, <1>2 DEF PairInv, ShutdownAlone
  <1>5. HalfOfPair'
    BY <1>1, <1>2 DEF PairInv, HalfOfPair
  <1>6. SomebodyShutsDown'
    BY <1>2 DEF SomebodyShutsDown
  <1> QED BY <1>3, <1>4, <1>5, <1>6 DEF PairInv

(* The last active bot to end shuts down; any other leaves one behind that *)
(* has to.                                                                 *)
LEMMA EndsPair ==
    ASSUME LifeTypes, PairInv, NEW b \in Bots, pc[b] = "run", Ends(b),
           UNCHANGED <<started, ups, doubled, raced, broken>>
    PROVE  PairInv'
  <1> DEFINE p == IF active' = {} /\ started THEN "shutdown" ELSE "done"
  <1>1. pc'[b] = p /\ \A c \in Bots : c # b => pc'[c] = pc[c]
    BY Moves DEF LifeTypes, Ends
  <1>2. active' = active \ {b}
    BY DEF Ends
  <1>3. ASSUME ~raced, NEW c \in Bots PROVE pc[c] # "shutdown"
    BY <1>3 DEF PairInv, ShutdownAlone
  <1>4. ActiveBots'
    BY <1>1, <1>2 DEF PairInv, ActiveBots
  <1>5. ShutdownAlone'
    <2> SUFFICES ASSUME NEW c \in Bots, NEW d \in Bots, ~raced, c # d, pc'[c] = "shutdown"
                 PROVE  pc'[d] \in {"off", "done"}
      BY DEF ShutdownAlone
    <2>1. c = b /\ active' = {}
      BY <1>1, <1>3
    <2>2. pc[d] \notin {"startup", "run", "raised"}
      BY <1>2, <2>1 DEF PairInv, ActiveBots
    <2> QED BY <1>1, <1>3, <2>1, <2>2 DEF LifeTypes, Places
  <1>6. HalfOfPair'
    <2> SUFFICES ASSUME ~raced PROVE HalfOfPair'
      BY DEF HalfOfPair
    <2>1. started
      BY DEF PairInv, HalfOfPair
    <2> QED BY <1>1, <2>1 DEF PairInv, HalfOfPair
  <1>7. SomebodyShutsDown'
    <2> SUFFICES ASSUME started PROVE \E c \in Bots : pc'[c] \notin {"off", "done"}
      BY DEF SomebodyShutsDown
    <2>1. CASE active' = {}
      BY <1>1, <2>1
    <2>2. CASE active' # {}
      <3>1. PICK c \in active : c # b
        BY <1>2, <2>2
      <3>2. c \in Bots /\ pc[c] \in {"startup", "run", "raised"}
        BY DEF LifeTypes, PairInv, ActiveBots
      <3> QED BY <1>1, <3>1, <3>2
    <2> QED BY <2>1, <2>2
  <1> QED BY <1>4, <1>5, <1>6, <1>7 DEF PairInv

(* A sync, and what it leaves behind, belongs to a bot that runs.          *)
LEMMA StepSyncs ==
    ASSUME TypeOK, SyncsOfRunning, [Next]_vars
    PROVE  SyncsOfRunning'
  <1>0. run \in RunTypes /\ Idle \in Runs /\ pc \in [Bots -> Places]
    BY RunFields DEF TypeOK, LifeTypes, CommandTypes, RunTypes
  <1>1. \A b \in Bots : Begun(b) \in Runs
    BY RunShapes DEF Begun, TypeOK, CommandTypes
  <1>2. "loop" \in Workers /\ "retry" \in Workers
    BY DEF Workers
  <1>3. ASSUME NEW b \in Bots, NEW w \in Workers, run[b][w].at # "idle" PROVE pc[b] = "run"
    BY <1>3, RunFields DEF SyncsOfRunning
  <1>4. ASSUME NEW b \in Bots, pc[b] = "run" \/ \A w \in Workers : run'[b][w] = run[b][w],
               \A c \in Bots : c # b => run'[c] = run[c], UNCHANGED pc
        PROVE  SyncsOfRunning'
    BY <1>4 DEF SyncsOfRunning
  <1>5. ASSUME NEW b \in Bots,
               start_polling(b) \/ startup(b) \/ startupRaises(b) \/ shutdown(b) \/ shutdownRaises(b)
        PROVE  SyncsOfRunning'
    <2>1. pc[b] # "run" /\ UNCHANGED run
      BY <1>5 DEF start_polling, startup, startupRaises, shutdown, shutdownRaises, commands
    <2>2. \A c \in Bots : c # b => pc'[c] = pc[c]
      BY <1>0, <1>5, Moves DEF start_polling, startup, startupRaises, shutdown, shutdownRaises
    <2> QED BY <2>1, <2>2 DEF SyncsOfRunning
  <1>6. ASSUME NEW b \in Bots, BotEnds(b) \/ LoopRaises(b) PROVE SyncsOfRunning'
    <2>1. Ends(b)
      BY <1>6 DEF BotEnds, LoopRaises
    <2>2. \A c \in Bots : c # b => pc'[c] = pc[c] /\ run'[c] = run[c]
      BY <1>0, <2>1, Moves, ClearRun DEF Ends
    <2>3. \A w \in Workers : run'[b][w] = Idle
      BY <1>0, <2>1, ClearRun DEF Ends
    <2> QED BY <2>2, <2>3 DEF SyncsOfRunning
  <1>7. ASSUME NEW b \in Bots, stop(b) \/ _handle_ready(b) \/ sync_application_commands(b)
                 \/ RetryWakes(b) \/ RetryRaises(b)
        PROVE  SyncsOfRunning'
    <2>1. pc[b] = "run" /\ UNCHANGED pc
      <3>1. stop(b) \/ _handle_ready(b) \/ sync_application_commands(b) => pc[b] = "run"
        BY DEF stop, _handle_ready, sync_application_commands
      <3>2. RetryWakes(b) \/ RetryRaises(b) => run[b]["retry"].at # "idle"
        BY DEF RetryWakes, RetryRaises
      <3>3. UNCHANGED pc
        BY <1>7 DEF stop, _handle_ready, sync_application_commands, RetryWakes, RetryRaises, life
      <3> QED BY <1>2, <1>3, <1>7, <3>1, <3>2, <3>3
    <2>2. \A c \in Bots : c # b => run'[c] = run[c]
      BY <1>0, <1>1, <1>2, <1>7, SetRun
      DEF stop, _handle_ready, sync_application_commands, RetryWakes, RetryRaises, RunSet
    <2> QED BY <1>4, <2>1, <2>2
  <1>8. ASSUME NEW b \in Bots, NEW w \in Workers,
               ListsCommands(b, w) \/ OverwritesCommands(b, w) \/ RateLimited(b, w)
        PROVE  SyncsOfRunning'
    <2>1. run[b][w].at # "idle" /\ UNCHANGED pc
      BY <1>8 DEF ListsCommands, OverwritesCommands, RateLimited, life
    <2>2. pc[b] = "run"
      BY <1>3, <2>1
    <2>3. run' = [run EXCEPT ![b] = run'[b]]
      <3>1. ASSUME NEW r, run' = [run EXCEPT ![b][w] = r] PROVE run' = [run EXCEPT ![b] = run'[b]]
        BY <1>0, <3>1 DEF RunTypes
      <3>2. Advances(b, w) => run' = [run EXCEPT ![b] = run'[b]]
        BY <3>1 DEF Advances
      <3>3. _schedule_command_sync_retry(b, w) => run' = [run EXCEPT ![b] = run'[b]]
        BY <1>0 DEF _schedule_command_sync_retry, RunTypes
      <3> QED BY <1>8, <3>1, <3>2, <3>3 DEF ListsCommands, OverwritesCommands, RateLimited
    <2>4. \A c \in Bots : c # b => run'[c] = run[c]
      BY <1>0, <2>3 DEF RunTypes
    <2> QED BY <1>4, <2>1, <2>2, <2>4
  <1>9. ASSUME UNCHANGED <<pc, run>> PROVE SyncsOfRunning'
    BY <1>9 DEF SyncsOfRunning
  <1> QED BY <1>5, <1>6, <1>7, <1>8, <1>9
      DEF Next, Syncs, ForeignEdit, slash_command, vars, life, commands

(* Startup and shutdown come in pairs, whoever is last and whichever of    *)
(* their handlers raise (one startup is left without its shutdown only     *)
(* when that raised), and no retry task outlives its bot.                  *)
THEOREM Paired == Spec => []LifecyclePaired
  <1>1. Init => LifeInv
    <2> SUFFICES ASSUME Init PROVE LifeInv
      OBVIOUS
    <2>1. \A b \in Bots : pc[b] = "off"
      BY DEF Init
    <2>2. ActiveBots /\ ShutdownAlone /\ SomebodyShutsDown
      BY <2>1 DEF Init, ActiveBots, ShutdownAlone, SomebodyShutsDown
    <2>3. HalfOfPair
      BY <2>1 DEF Init, HalfOfPair
    <2>4. SyncsOfRunning
      BY DEF Init, SyncsOfRunning
    <2> QED BY <2>2, <2>3, <2>4 DEF LifeInv
  <1>2. TypeOK /\ LifeInv /\ [Next]_vars => LifeInv'
    <2> SUFFICES ASSUME TypeOK, LifeInv, [Next]_vars PROVE LifeInv'
      OBVIOUS
    <2>0. LifeTypes /\ PairInv /\ SyncsOfRunning
      BY DEF TypeOK, LifeInv, PairInv
    <2>1. ASSUME NEW b \in Bots,
                 start_polling(b) \/ startup(b) \/ startupRaises(b) \/ shutdown(b) \/ shutdownRaises(b)
          PROVE  PairInv'
      BY <2>0, <2>1, StartPolling, StartupPair, StartupRaisesPair, ShutdownPair, ShutdownRaisesPair
    <2>2. ASSUME NEW b \in Bots, BotEnds(b) \/ LoopRaises(b) PROVE PairInv'
      <3>1. pc[b] = "run"
        <4>1. "loop" \in Workers
          BY DEF Workers
        <4>2. LoopRaises(b) => run[b]["loop"].at # "idle"
          BY DEF LoopRaises
        <4>3. BotEnds(b) => pc[b] = "run"
          BY DEF BotEnds
        <4> QED BY <2>0, <2>2, <4>1, <4>2, <4>3, RunFields DEF SyncsOfRunning
      <3>2. Ends(b) /\ UNCHANGED <<started, ups, doubled, raced, broken>>
        BY <2>2 DEF BotEnds, LoopRaises
      <3> QED BY <2>0, <3>1, <3>2, EndsPair
    <2>3. ASSUME UNCHANGED <<pc, active, started, ups, doubled, raced, broken>> PROVE PairInv'
      BY <2>0, <2>3 DEF PairInv, ActiveBots, ShutdownAlone, HalfOfPair, SomebodyShutsDown
    <2>4. PairInv'
      BY ZenonT(40), <2>1, <2>2, <2>3
      DEF Next, stop, _handle_ready, sync_application_commands, Syncs, RetryWakes, ListsCommands,
          OverwritesCommands, RetryRaises, RateLimited, ForeignEdit, slash_command, vars, life
    <2> QED BY <2>0, <2>4, StepSyncs DEF LifeInv, PairInv
  <1>3. TypeOK /\ LifeInv => LifecyclePaired
    <2> SUFFICES ASSUME TypeOK, LifeInv PROVE LifecyclePaired
      OBVIOUS
    <2>0. ups \in Nat
      BY DEF TypeOK, LifeTypes
    <2>1. StartedWhileRunning
      BY <2>0 DEF LifeInv, HalfOfPair, StartedWhileRunning
    <2>2. LastOneShutsDown
      BY <2>0 DEF LifeInv, HalfOfPair, SomebodyShutsDown, LastOneShutsDown
    <2>3. StoppedLeavesNoRetry
      BY DEF LifeInv, SyncsOfRunning, StoppedLeavesNoRetry, Workers
    <2> QED BY <2>1, <2>2, <2>3 DEF LifecyclePaired
  <1> QED BY <1>1, <1>2, <1>3, TypeCorrect, PTL DEF Spec

-----------------------------------------------------------------------------
(* The command lists.                                                      *)

KeptInv == SyncInv /\ SyncedStays

(* What a look at a list, or its overwrite, says of the list.              *)
LEMMA Payload ==
    ASSUME NEW seen, NEW want
    PROVE  /\ want \subseteq _resolve_command_sync_payload(seen, want)
           /\ ~_commands_changed(seen, want) => want \subseteq seen
           /\ mode = "merge" => seen \subseteq _resolve_command_sync_payload(seen, want)
  BY DEF _resolve_command_sync_payload, _commands_changed

(* Syncs may stop, or begin, or look at a list: the lists stay.            *)
LEMMA SyncsKeep ==
    ASSUME KeptInv, NEW b \in Bots, UNCHANGED <<remote, synced, registered, late>>,
           \A c \in Bots : c # b => run'[c] = run[c],
           \A w \in Workers :
              \/ run'[b][w] = run[b][w] \/ run'[b][w].at \in {"idle", "sleep"}
              \/ run'[b][w].want = registered[b] /\ run'[b][w].i = 1
              \/ Syncing(b, w) /\ run'[b][w].want = run[b][w].want /\ run'[b][w].i = run[b][w].i
    PROVE  KeptInv'
  <1>1. SyncedStays'
    BY DEF KeptInv, SyncedStays
  <1>2. ASSUME NEW c \in Bots, ~late[c]
        PROVE  /\ synced[c] \subseteq registered[c]
               /\ \A w \in Workers : Syncing(c, w)' =>
                    /\ run'[c][w].want = registered[c]
                    /\ \A i \in 1 .. Lists : i < run'[c][w].i => registered[c] \subseteq remote[c][i]
    <2>0. /\ synced[c] \subseteq registered[c]
          /\ \A w \in Workers : Syncing(c, w) =>
               /\ run[c][w].want = registered[c]
               /\ \A i \in 1 .. Lists : i < run[c][w].i => registered[c] \subseteq remote[c][i]
      BY <1>2 DEF KeptInv, SyncInv
    <2>1. CASE c # b
      BY <2>0, <2>1 DEF Syncing
    <2>2. CASE c = b
      <3> SUFFICES ASSUME NEW w \in Workers, Syncing(b, w)'
                   PROVE  /\ run'[b][w].want = registered[b]
                          /\ \A i \in 1 .. Lists : i < run'[b][w].i => registered[b] \subseteq remote[b][i]
        BY <2>0, <2>2
      <3>1. CASE run'[b][w] = run[b][w]
        BY <2>0, <2>2, <3>1 DEF Syncing
      <3>2. CASE run'[b][w].want = registered[b] /\ run'[b][w].i = 1
        BY <3>2
      <3>3. CASE Syncing(b, w) /\ run'[b][w].want = run[b][w].want /\ run'[b][w].i = run[b][w].i
        BY <2>0, <2>2, <3>3
      <3>4. run'[b][w].at \notin {"idle", "sleep"}
        BY DEF Syncing
      <3> QED BY <3>1, <3>2, <3>3, <3>4
    <2> QED BY <2>1, <2>2
  <1>3. SyncInv'
    BY <1>2 DEF SyncInv
  <1> QED BY <1>1, <1>3 DEF KeptInv

(* A sync is through with a list that has what it wants, and goes on.      *)
LEMMA AdvanceKeeps ==
    ASSUME CommandTypes, KeptInv, NEW b \in Bots, NEW w \in Workers, Syncing(b, w), Advances(b, w),
           UNCHANGED <<registered, late>>,
           \A c \in Bots : c # b => remote'[c] = remote[c],
           \A i \in 1 .. Lists : i # run[b][w].i => remote'[b][i] = remote[b][i],
           run[b][w].want \subseteq remote'[b][run[b][w].i]
    PROVE  KeptInv'
  <1> DEFINE r == run[b][w]
  <1>0. run \in RunTypes /\ r \in Runs /\ Idle \in Runs
    BY RunFields DEF CommandTypes, RunTypes
  <1>1. Lists \in Nat /\ r.i \in 1 .. Lists
    BY <1>0, BotsAssumption DEF Runs
  <1>2. /\ \A c \in Bots : c # b => run'[c] = run[c] /\ synced'[c] = synced[c]
        /\ \A v \in Workers : v # w => run'[b][v] = run[b][v]
        /\ \/ r.i < Lists /\ synced'[b] = synced[b] /\ run'[b][w].want = r.want /\ run'[b][w].i = r.i + 1
           \/ r.i = Lists /\ synced'[b] = synced[b] \cup r.want /\ run'[b][w] = Idle
    <2>1. CASE /\ r.i < Lists /\ UNCHANGED synced
               /\ run' = [run EXCEPT ![b][w] = NextList(r)]
      <3>1. NextList(r) \in Runs /\ NextList(r).want = r.want /\ NextList(r).i = r.i + 1
        BY <1>0, <2>1, RunShapes
      <3>2. /\ run'[b][w] = NextList(r) /\ \A v \in Workers : v # w => run'[b][v] = run[b][v]
            /\ \A c \in Bots : c # b => run'[c] = run[c]
        <4>1. RunSet(b, w, NextList(r))
          BY <1>0, <2>1, <3>1, SetRun
        <4> QED BY <4>1 DEF RunSet
      <3> QED BY <2>1, <3>1, <3>2
    <2>2. CASE /\ r.i = Lists /\ run' = [run EXCEPT ![b][w] = Idle]
               /\ synced' = [synced EXCEPT ![b] = synced[b] \cup r.want]
      <3>1. synced'[b] = synced[b] \cup r.want /\ \A c \in Bots : c # b => synced'[c] = synced[c]
        BY <2>2 DEF CommandTypes
      <3>2. /\ run'[b][w] = Idle /\ \A v \in Workers : v # w => run'[b][v] = run[b][v]
            /\ \A c \in Bots : c # b => run'[c] = run[c]
        <4>1. RunSet(b, w, Idle)
          BY <1>0, <2>2, SetRun
        <4> QED BY <4>1 DEF RunSet
      <3> QED BY <2>2, <3>1, <3>2
    <2> QED BY <2>1, <2>2 DEF Advances
  <1>3. ASSUME NEW c \in Bots, c # b, ~late[c]
        PROVE  /\ \A i \in 1 .. Lists : synced'[c] \subseteq remote'[c][i]
               /\ synced'[c] \subseteq registered[c]
               /\ \A v \in Workers : Syncing(c, v)' =>
                    /\ run'[c][v].want = registered[c]
                    /\ \A i \in 1 .. Lists : i < run'[c][v].i => registered[c] \subseteq remote'[c][i]
    BY <1>2, <1>3 DEF KeptInv, SyncInv, SyncedStays, Syncing
  <1>4. ASSUME ~late[b]
        PROVE  /\ \A i \in 1 .. Lists : synced'[b] \subseteq remote'[b][i]
               /\ synced'[b] \subseteq registered[b]
               /\ \A v \in Workers : Syncing(b, v)' =>
                    /\ run'[b][v].want = registered[b]
                    /\ \A i \in 1 .. Lists : i < run'[b][v].i => registered[b] \subseteq remote'[b][i]
    <2>1. /\ synced[b] \subseteq registered[b] /\ r.want = registered[b]
          /\ \A i \in 1 .. Lists : i < r.i => registered[b] \subseteq remote[b][i]
      BY <1>4 DEF KeptInv, SyncInv
    <2>2. registered[b] \subseteq remote'[b][r.i]
      BY <2>1
    <2>3. \A i \in 1 .. Lists : i < r.i => registered[b] \subseteq remote'[b][i]
      BY <1>1, <2>1
    <2>4. synced'[b] \subseteq registered[b]
      BY <1>2, <2>1
    <2>5. ASSUME NEW i \in 1 .. Lists PROVE synced'[b] \subseteq remote'[b][i]
      <3>1. CASE i = r.i
        BY <2>2, <2>4, <3>1
      <3>2. CASE i # r.i /\ synced'[b] = synced[b]
        BY <1>4, <3>2 DEF KeptInv, SyncedStays
      <3>3. CASE i # r.i /\ r.i = Lists
        <4>1. i < r.i
          BY <1>1, <3>3
        <4> QED BY <2>3, <2>4, <4>1
      <3> QED BY <1>2, <3>1, <3>2, <3>3
    <2>6. ASSUME NEW v \in Workers, v # w, Syncing(b, v)'
          PROVE  /\ run'[b][v].want = registered[b]
                 /\ \A i \in 1 .. Lists : i < run'[b][v].i => registered[b] \subseteq remote'[b][i]
      <3>1. run'[b][v] = run[b][v] /\ Syncing(b, v)
        BY <1>2, <2>6 DEF Syncing
      <3>2. /\ run[b][v].want = registered[b]
            /\ \A i \in 1 .. Lists : i < run[b][v].i => registered[b] \subseteq remote[b][i]
        BY <1>4, <3>1 DEF KeptInv, SyncInv
      <3>3. \A i \in 1 .. Lists : i < run[b][v].i => registered[b] \subseteq remote'[b][i]
        BY <2>2, <3>2
      <3> QED BY <3>1, <3>2, <3>3
    <2>7. ASSUME Syncing(b, w)'
          PROVE  /\ run'[b][w].want = registered[b]
                 /\ \A i \in 1 .. Lists : i < run'[b][w].i => registered[b] \subseteq remote'[b][i]
      <3>1. run'[b][w] # Idle
        BY <2>7, RunFields DEF Syncing
      <3>2. run'[b][w].want = r.want /\ run'[b][w].i = r.i + 1
        BY <1>2, <3>1
      <3>3. \A i \in 1 .. Lists : i < r.i + 1 => i < r.i \/ i = r.i
        BY <1>1
      <3> QED BY <2>1, <2>2, <2>3, <3>2, <3>3
    <2> QED BY <2>4, <2>5, <2>6, <2>7
  <1>5. SyncedStays'
    BY <1>3, <1>4 DEF SyncedStays
  <1>6. SyncInv'
    BY <1>3, <1>4 DEF SyncInv
  <1> QED BY <1>5, <1>6 DEF KeptInv

LEMMA StepKept ==
    ASSUME TypeOK, KeptInv, [Next]_vars
    PROVE  KeptInv'
  <1>0. CommandTypes /\ run \in RunTypes /\ Idle \in Runs
    BY RunFields DEF TypeOK, CommandTypes, RunTypes
  <1>1. \A b \in Bots : Begun(b) \in Runs /\ Begun(b).want = registered[b] /\ Begun(b).i = 1
    BY <1>0, RunShapes DEF Begun, CommandTypes
  <1>2. "loop" \in Workers /\ "retry" \in Workers
    BY DEF Workers
  <1>3. ASSUME UNCHANGED commands PROVE KeptInv'
    BY <1>3 DEF commands, KeptInv, SyncInv, SyncedStays, Syncing
  <1>4. ASSUME NEW b \in Bots, NEW w \in Workers, run' = [run EXCEPT ![b][w] = Idle],
               UNCHANGED <<remote, synced, registered, late>>
        PROVE  KeptInv'
    <2>1. /\ run'[b][w] = Idle /\ \A v \in Workers : v # w => run'[b][v] = run[b][v]
          /\ \A c \in Bots : c # b => run'[c] = run[c]
      <3>1. RunSet(b, w, Idle)
        BY <1>0, <1>4, SetRun
      <3> QED BY <3>1 DEF RunSet
    <2>2. \A v \in Workers : run'[b][v] = run[b][v] \/ run'[b][v].at \in {"idle", "sleep"}
      BY <2>1, RunFields
    <2> QED BY <1>4, <2>1, <2>2, SyncsKeep
  <1>5. ASSUME NEW b \in Bots, NEW w \in Workers, run' = [run EXCEPT ![b][w] = Begun(b)],
               UNCHANGED <<remote, synced, registered, late>>
        PROVE  KeptInv'
    <2>1. /\ run'[b][w] = Begun(b) /\ \A v \in Workers : v # w => run'[b][v] = run[b][v]
          /\ \A c \in Bots : c # b => run'[c] = run[c]
      <3>1. RunSet(b, w, Begun(b))
        BY <1>0, <1>1, <1>5, SetRun
      <3> QED BY <3>1 DEF RunSet
    <2>2. \A v \in Workers : run'[b][v] = run[b][v] \/ (run'[b][v].want = registered[b] /\ run'[b][v].i = 1)
      BY <1>1, <2>1
    <2> QED BY <1>5, <2>1, <2>2, SyncsKeep
  <1>6. ASSUME NEW b \in Bots, stop(b) \/ RetryRaises(b) PROVE KeptInv'
    BY <1>2, <1>4, <1>6 DEF stop, RetryRaises
  <1>7. ASSUME NEW b \in Bots, _handle_ready(b) \/ sync_application_commands(b) \/ RetryWakes(b)
        PROVE  KeptInv'
    BY <1>2, <1>5, <1>7 DEF _handle_ready, sync_application_commands, RetryWakes
  <1>8. ASSUME NEW b \in Bots, BotEnds(b) \/ LoopRaises(b) PROVE KeptInv'
    <2>1. UNCHANGED <<remote, synced, registered, late>>
      BY <1>8 DEF BotEnds, LoopRaises
    <2>2. (\A w \in Workers : run'[b][w] = Idle) /\ \A c \in Bots : c # b => run'[c] = run[c]
      BY <1>0, <1>8, ClearRun DEF BotEnds, LoopRaises, Ends
    <2>3. \A w \in Workers : run'[b][w].at \in {"idle", "sleep"}
      BY <2>2, RunFields
    <2> QED BY <2>1, <2>2, <2>3, SyncsKeep
  <1>9. ASSUME NEW b \in Bots, NEW w \in Workers, RateLimited(b, w) PROVE KeptInv'
    <2>1. UNCHANGED <<remote, synced, registered, late>>
      BY <1>9 DEF RateLimited
    <2>2. /\ \A v \in Workers : run'[b][v] \in {run[b][v], Idle, [Idle EXCEPT !.at = "sleep"]}
          /\ \A c \in Bots : c # b => run'[c] = run[c]
      BY <1>0, <1>9, ScheduleRun DEF RateLimited
    <2>3. \A v \in Workers : run'[b][v] = run[b][v] \/ run'[b][v].at \in {"idle", "sleep"}
      BY <2>2, RunFields, RunShapes
    <2> QED BY <2>1, <2>2, <2>3, SyncsKeep
  <1>10. ASSUME NEW b \in Bots, NEW w \in Workers, ListsCommands(b, w) PROVE KeptInv'
    <2> DEFINE r == run[b][w]
    <2>0. r \in Runs /\ r.i \in 1 .. Lists /\ Syncing(b, w)
      <3>1. r \in Runs
        BY <1>0 DEF RunTypes
      <3>2. Syncing(b, w)
        BY <1>10 DEF ListsCommands, Syncing
      <3> QED BY <3>1, <3>2 DEF Runs
    <2>1. UNCHANGED <<remote, registered, late>>
      BY <1>10 DEF ListsCommands
    <2>2. CASE /\ UNCHANGED synced
               /\ run' = [run EXCEPT ![b][w] = [r EXCEPT !.at = "put", !.seen = remote[b][r.i]]]
      <3>0. remote[b][r.i] \in SUBSET (Commands \cup {Foreign})
        <4>1. remote[b] \in [1 .. Lists -> SUBSET (Commands \cup {Foreign})]
          BY <1>0 DEF CommandTypes
        <4> QED BY <2>0, <4>1
      <3> DEFINE q == [r EXCEPT !.at = "put", !.seen = remote[b][r.i]]
      <3>1. q \in Runs /\ q.want = r.want /\ q.i = r.i
        BY ZenonT(40), <2>0, <3>0, RunShapes
      <3>2. /\ run'[b][w] = q /\ \A v \in Workers : v # w => run'[b][v] = run[b][v]
            /\ \A c \in Bots : c # b => run'[c] = run[c]
        <4>1. RunSet(b, w, q)
          BY <1>0, <2>2, <3>1, SetRun
        <4> QED BY <4>1 DEF RunSet
      <3>3. \A v \in Workers : \/ run'[b][v] = run[b][v]
                               \/ Syncing(b, v) /\ run'[b][v].want = run[b][v].want
                                                /\ run'[b][v].i = run[b][v].i
        BY <2>0, <3>1, <3>2
      <3> QED BY ZenonT(40), <2>1, <2>2, <3>2, <3>3, SyncsKeep
    <2>3. CASE ~_commands_changed(remote[b][r.i], r.want) /\ Advances(b, w)
      <3>1. r.want \subseteq remote'[b][r.i]
        BY <2>1, <2>3, Payload
      <3> QED BY <1>0, <2>0, <2>1, <2>3, <3>1, AdvanceKeeps
    <2> QED BY <1>10, <2>2, <2>3 DEF ListsCommands
  <1>11. ASSUME NEW b \in Bots, NEW w \in Workers, OverwritesCommands(b, w) PROVE KeptInv'
    <2> DEFINE r == run[b][w]
               f == _resolve_command_sync_payload(r.seen, r.want)
    <2>0. r \in Runs /\ r.i \in 1 .. Lists /\ Syncing(b, w)
      <3>1. r \in Runs
        BY <1>0 DEF RunTypes
      <3>2. Syncing(b, w)
        BY <1>11 DEF OverwritesCommands, Syncing
      <3> QED BY <3>1, <3>2 DEF Runs
    <2>1. UNCHANGED <<registered, late>> /\ Advances(b, w) /\ remote' = [remote EXCEPT ![b][r.i] = f]
      BY <1>11 DEF OverwritesCommands
    <2>2. r.want \subseteq f
      BY Payload
    <2> HIDE DEF f
    <2>3. remote' = [remote EXCEPT ![b] = [remote[b] EXCEPT ![r.i] = f]]
      BY <2>1
    <2>4. remote'[b] = [remote[b] EXCEPT ![r.i] = f] /\ \A c \in Bots : c # b => remote'[c] = remote[c]
      BY <1>0, <2>3 DEF CommandTypes
    <2>5. remote[b] \in [1 .. Lists -> SUBSET (Commands \cup {Foreign})]
      BY <1>0 DEF CommandTypes
    <2>6. remote'[b][r.i] = f /\ \A i \in 1 .. Lists : i # r.i => remote'[b][i] = remote[b][i]
      BY <2>0, <2>4, <2>5
    <2> QED BY <1>0, <2>0, <2>1, <2>2, <2>4, <2>6, AdvanceKeeps
  <1>12. ASSUME NEW b \in Bots, ForeignEdit(b, 1) PROVE KeptInv'
    <2>1. \A c \in Bots, i \in 1 .. Lists : remote[c][i] \subseteq remote'[c][i]
      <3>1. remote' = [remote EXCEPT ![b] = [remote[b] EXCEPT ![1] = remote[b][1] \cup {Foreign}]]
        BY <1>12 DEF ForeignEdit
      <3>2. /\ remote'[b] = [remote[b] EXCEPT ![1] = remote[b][1] \cup {Foreign}]
            /\ \A c \in Bots : c # b => remote'[c] = remote[c]
        BY <1>0, <3>1 DEF CommandTypes
      <3>3. remote[b] \in [1 .. Lists -> SUBSET (Commands \cup {Foreign})]
        BY <1>0 DEF CommandTypes
      <3>4. \A i \in 1 .. Lists : remote[b][i] \subseteq remote'[b][i]
        BY <3>2, <3>3
      <3> QED BY <3>2, <3>4
    <2>2. UNCHANGED <<run, synced, registered, late>>
      BY <1>12 DEF ForeignEdit
    <2>3. SyncedStays'
      BY <2>1, <2>2 DEF KeptInv, SyncedStays
    <2>4. SyncInv'
      BY <2>1, <2>2 DEF KeptInv, SyncInv, Syncing
    <2> QED BY <2>3, <2>4 DEF KeptInv
  <1>13. ASSUME NEW b \in Bots, NEW c \in Commands, slash_command(b, c) PROVE KeptInv'
    <2>1. UNCHANGED <<run, remote, synced>>
      BY <1>13 DEF slash_command
    <2>2. \A d \in Bots : registered[d] \subseteq registered'[d] /\ (d # b => registered'[d] = registered[d])
      BY <1>0, <1>13 DEF slash_command, CommandTypes
    <2>3. \A d \in Bots : d # b => late'[d] = late[d]
      BY <1>0, <1>13 DEF slash_command, CommandTypes
    <2>4. late'[b] = (late[b] \/ \E w \in Workers : Syncing(b, w))
      BY <1>0, <1>13, Zenon DEF slash_command, CommandTypes, Syncing
    <2>5. SyncedStays'
      BY <2>1, <2>3, <2>4 DEF KeptInv, SyncedStays
    <2>6. ASSUME NEW d \in Bots, ~late'[d]
          PROVE  /\ synced[d] \subseteq registered'[d]
                 /\ \A w \in Workers : Syncing(d, w)' =>
                      /\ run[d][w].want = registered'[d]
                      /\ \A i \in 1 .. Lists : i < run[d][w].i => registered'[d] \subseteq remote[d][i]
      <3>1. CASE d # b
        BY <2>1, <2>2, <2>3, <2>6, <3>1 DEF KeptInv, SyncInv, Syncing
      <3>2. CASE d = b
        <4>1. ~late[b] /\ \A w \in Workers : ~Syncing(b, w)
          BY <2>4, <2>6, <3>2
        <4>2. \A w \in Workers : ~Syncing(b, w)'
          BY <2>1, <4>1 DEF Syncing
        <4> QED BY <2>2, <3>2, <4>1, <4>2 DEF KeptInv, SyncInv
      <3> QED BY <3>1, <3>2
    <2>7. SyncInv'
      BY <2>1, <2>6 DEF SyncInv
    <2> QED BY <2>5, <2>7 DEF KeptInv
  <1> QED BY <1>3, <1>6, <1>7, <1>8, <1>9, <1>10, <1>11, <1>12, <1>13
      DEF Next, Syncs, start_polling, startup, startupRaises, shutdown, shutdownRaises, vars

(* A merge writes back what it has seen, and ~clash says that this was     *)
(* still the list.                                                         *)
LEMMA StepForeign ==
    ASSUME TypeOK, ForeignSurvives, [Next]_vars
    PROVE  ForeignSurvives'
  <1>0. CommandTypes /\ run \in RunTypes
    BY DEF TypeOK, CommandTypes, RunTypes
  <1>1. ASSUME NEW b \in Bots, NEW w \in Workers, OverwritesCommands(b, w) PROVE ForeignSurvives'
    <2> DEFINE r == run[b][w]
               f == _resolve_command_sync_payload(r.seen, r.want)
    <2>1. UNCHANGED <<edited, mode>> /\ remote' = [remote EXCEPT ![b] = [remote[b] EXCEPT ![r.i] = f]]
      BY <1>1 DEF OverwritesCommands
    <2>2. /\ clash'[b] = (clash[b] \/ remote[b][r.i] # r.seen)
          /\ \A c \in Bots : c # b => clash'[c] = clash[c]
      BY <1>0, <1>1, Zenon DEF OverwritesCommands, CommandTypes
    <2>3. mode = "merge" => r.seen \subseteq f
      BY Payload
    <2> HIDE DEF f
    <2>4. remote'[b] = [remote[b] EXCEPT ![r.i] = f] /\ \A c \in Bots : c # b => remote'[c] = remote[c]
      BY <1>0, <2>1 DEF CommandTypes
    <2>5. r.i \in 1 .. Lists /\ remote[b] \in [1 .. Lists -> SUBSET (Commands \cup {Foreign})]
      <3>1. r \in Runs
        BY <1>0 DEF RunTypes
      <3> QED BY <1>0, <3>1 DEF CommandTypes, Runs
    <2>6. remote'[b][r.i] = f /\ \A i \in 1 .. Lists : i # r.i => remote'[b][i] = remote[b][i]
      BY <2>4, <2>5
    <2> SUFFICES ASSUME mode = "merge", NEW c \in Bots, ~clash'[c], NEW i \in edited[c]
                 PROVE  Foreign \in remote'[c][i]
      BY <2>1 DEF ForeignSurvives
    <2>7. i \in 1 .. Lists
      BY <1>0 DEF CommandTypes
    <2>8. CASE c # b
      BY <2>2, <2>4, <2>8 DEF ForeignSurvives
    <2>9. CASE c = b
      <3>1. Foreign \in remote[b][i] /\ remote[b][r.i] = r.seen
        BY <2>2, <2>9 DEF ForeignSurvives
      <3> QED BY <2>3, <2>6, <2>7, <2>9, <3>1
    <2> QED BY <2>8, <2>9
  <1>2. ASSUME NEW b \in Bots, ForeignEdit(b, 1) PROVE ForeignSurvives'
    <2>1. /\ remote' = [remote EXCEPT ![b] = [remote[b] EXCEPT ![1] = remote[b][1] \cup {Foreign}]]
          /\ edited[b] = {} /\ edited' = [edited EXCEPT ![b] = edited[b] \cup {1}] /\ UNCHANGED <<mode, clash>>
      BY <1>2 DEF ForeignEdit
    <2>2. edited'[b] = {1} /\ \A c \in Bots : c # b => edited'[c] = edited[c]
      BY <1>0, <2>1 DEF CommandTypes
    <2>3. /\ remote'[b] = [remote[b] EXCEPT ![1] = remote[b][1] \cup {Foreign}]
          /\ \A c \in Bots : c # b => remote'[c] = remote[c]
      BY <1>0, <2>1 DEF CommandTypes
    <2>4. 1 \in 1 .. Lists /\ remote[b] \in [1 .. Lists -> SUBSET (Commands \cup {Foreign})]
      BY <1>0, BotsAssumption DEF CommandTypes
    <2>5. Foreign \in remote'[b][1]
      BY <2>3, <2>4
    <2> QED BY <2>1, <2>2, <2>3, <2>5 DEF ForeignSurvives
  <1>3. ASSUME UNCHANGED <<remote, edited, clash, mode>> PROVE ForeignSurvives'
    BY <1>3 DEF ForeignSurvives
  <1> QED BY ZenonT(40), <1>1, <1>2, <1>3
      DEF Next, start_polling, startup, startupRaises, shutdown, shutdownRaises, stop, BotEnds,
         _handle_ready, sync_application_commands, Syncs,
          RetryWakes, ListsCommands, RetryRaises, LoopRaises, RateLimited, slash_command, vars, commands

(* A sync in the receive loop and the retry task may overlap in any way:   *)
(* what one has registered the other leaves there, and a merge keeps the   *)
(* commands of others.                                                     *)
THEOREM Kept == Spec => []ListsKept
  <1>1. Init => KeptInv /\ ForeignSurvives
    <2> SUFFICES ASSUME Init PROVE KeptInv /\ ForeignSurvives
      OBVIOUS
    <2>1. \A b \in Bots, w \in Workers : run[b][w].at = "idle"
      BY RunFields DEF Init
    <2>2. \A b \in Bots : synced[b] = {} /\ edited[b] = {}
      BY DEF Init
    <2> QED BY <2>1, <2>2 DEF KeptInv, SyncInv, SyncedStays, ForeignSurvives, Syncing
  <1>2. TypeOK /\ KeptInv /\ ForeignSurvives /\ [Next]_vars => (KeptInv /\ ForeignSurvives)'
    BY StepKept, StepForeign
  <1>3. KeptInv /\ ForeignSurvives => ListsKept
    BY DEF KeptInv, ListsKept
  <1> QED BY <1>1, <1>2, <1>3, TypeCorrect, PTL DEF Spec
=============================================================================
