---------------------------- MODULE ProcessProofs ----------------------------
(* Proofs about the child processes: one supervised command, for every        *)
(* timeout, grace and wait, on both readings of a zombie's group and whatever *)
(* the child does; the start of children by any number of threads; and the    *)
(* run lock, for any number of processes and children.                        *)
EXTENDS ProcessRunner, SpawnChild, RunLock, TLAPS

------------------------------------------------------------------------------
(* The supervised command, and its start.                                     *)

Supervising == {"start", "loop", "act", "look", "sleep"}
GroupGone == leader # "alive" /\ ~kids

\* How the flags depend on each other.
FlagsOK ==
  /\ shutdown \/ asking => signal # "none"
  /\ termSent => shutdown
  /\ killSent => termSent /\ killed
  /\ ~shutdown => asked = 0
  /\ ~termSent => age.term = 0
  /\ ~killSent => age.kill = 0
  /\ at = "start" <=> (leader = "none" /\ ~raised)
  /\ at \in {"look", "clean", "cleanSleep", "cleanKill", "reap"} => termSent
  /\ at \in Supervising => ~raised
  /\ raised /\ leader # "none" => shutdown
  /\ at \in {"join", "result"} => ~raised
  /\ at = "joinLast" => raised
  /\ leader = "none" => at \in {"start", "done"}
  /\ leader = "none" => ~kids

\* What is known of the group on the way out of run().
GroupOK ==
  /\ at = "cleanup" /\ ~raised /\ termSent => result.signal # "none"
  /\ at \in {"clean", "cleanSleep"} =>
       /\ age.wait <= Grace
       /\ age.wait <= age.term
  /\ at = "cleanKill" => age.term >= Grace \/ ~GroupAlive
  /\ at \in {"reap", "joinLast", "done"} /\ leader # "none" /\ (raised \/ termSent)
       => GroupGone \/ killed \/ denied

\* How long ago the shutdown was asked for, at each place.
LoopTime ==
  /\ age.term <= Larger(1, Grace)
  /\ age.kill <= KillWait
  /\ at = "sleep" /\ ~termSent => asked = 0
  /\ at \in Supervising /\ ~termSent => asked <= 1
  /\ at \in Supervising /\ termSent /\ ~killSent => asked <= 1 + age.term
  /\ at \in {"look", "sleep"} /\ termSent /\ ~killSent => age.term < Larger(1, Grace)
  /\ at \in Supervising /\ killSent => asked <= 1 + Larger(1, Grace) + age.kill
  /\ at = "sleep" /\ killSent => age.kill < KillWait

\* A normal return leaves the clean-up nothing to wait for, unless the shutdown
\* was only asked for after the leader had been reaped.
LeaveTime ==
  /\ at \in {"join", "joinLast"} => age.wait <= Drain
  /\ at = "join" =>
       \/ (~GroupAlive \/ killSent) /\ asked <= 1 + Larger(1, Grace) + KillWait + age.wait
       \/ leader = "reaped" /\ asked <= age.wait
  /\ at = "result" =>
       \/ (~GroupAlive \/ killSent) /\ asked <= 1 + Larger(1, Grace) + KillWait + Drain
       \/ leader = "reaped" /\ asked <= Drain
  /\ at = "cleanup" =>
       \/ (~GroupAlive \/ killSent) /\ asked <= 1 + Larger(1, Grace) + KillWait + Drain
       \/ leader = "reaped" /\ asked <= Drain
       \/ asked <= 1 + Larger(1, Grace)
  /\ at \in {"clean", "cleanSleep"} =>
       \/ leader = "reaped" /\ asked <= Drain + age.wait
       \/ asked <= 1 + Larger(1, Grace) + age.wait
  /\ at = "cleanSleep" => age.wait < Grace
  /\ at = "cleanKill" =>
       \/ leader = "reaped" /\ asked <= Drain + Grace
       \/ asked <= 1 + Larger(1, Grace) + Grace
  /\ at = "reap" =>
       /\ age.wait <= Larger(1, Drain)
       /\ asked <= 1 + Larger(1, Grace) + Grace + age.wait
  /\ at = "joinLast" => asked <= Bound - Drain + age.wait

RunnerInv == TypeOKRunner /\ FlagsOK /\ GroupOK /\ LoopTime /\ LeaveTime

\* The steps of the specification, one by one.
LEMMA RunnerCases ==
  ASSUME [RunnerNext]_runnerVars
  PROVE  \/ StartProcess \/ CheckTimeout \/ Shutdown \/ LookAtGroup \/ PollLeader
         \/ JoinReaders \/ MakeResult \/ CleanUp \/ CleanLoop \/ CleanKill \/ Reap
         \/ SuperviseRaises \/ Tick
         \/ LeaderEnds \/ KidsChange \/ Deny \/ ReadersEnd \/ Ask
         \/ UNCHANGED runnerVars
BY DEF RunnerNext, RunnerStep, Environment

\* The waits are numbers, and the bound has room for each way out of run().
LEMMA Numbers ==
  /\ Larger(1, Grace) \in Nat /\ Larger(1, Grace) >= 1 /\ Larger(1, Grace) >= Grace
  /\ Larger(1, Drain) \in Nat /\ Larger(1, Drain) >= 1 /\ Larger(1, Drain) >= Drain
  /\ Bound \in Nat
  /\ Bound >= 1 + Larger(1, Grace) + KillWait + Drain + Drain
  /\ Bound >= 1 + Larger(1, Grace) + Grace + Larger(1, Drain) + Drain
<1>1. /\ Larger(1, Grace) \in Nat /\ Larger(1, Grace) >= 1 /\ Larger(1, Grace) >= Grace
      /\ Larger(1, Drain) \in Nat /\ Larger(1, Drain) >= 1 /\ Larger(1, Drain) >= Drain
  BY RunnerAssumption DEF Larger
<1> DEFINE w == Larger(KillWait + Drain, Grace + Larger(1, Drain))
<1>2. w \in Nat /\ w >= KillWait + Drain /\ w >= Grace + Larger(1, Drain)
  BY <1>1, RunnerAssumption DEF Larger
<1>3. Bound = 1 + Larger(1, Grace) + w + Drain
  BY DEF Bound
<1> QED BY <1>1, <1>2, <1>3, RunnerAssumption

\* A timer counts on, and stops at its limit.
LEMMA Counts ==
  ASSUME NEW n \in Nat, NEW limit \in Nat
  PROVE  /\ Smaller(n + 1, limit) \in Nat
         /\ Smaller(n + 1, limit) <= n + 1
         /\ Smaller(n + 1, limit) <= limit
         /\ n < limit => Smaller(n + 1, limit) = n + 1
BY DEF Smaller

\* What a tick does to the timers that are compared.
LEMMA TickTimes ==
  ASSUME TypeOKRunner, FlagsOK, Tick
  PROVE  /\ age' \in [start : Nat, term : Nat, kill : Nat, exit : Nat, wait : Nat]
         /\ asked' \in Nat /\ asked' <= asked + 1
         /\ ~shutdown => asked' = 0
         /\ ~termSent => age'.term = 0
         /\ termSent => age'.term <= Larger(1, Grace)
         /\ termSent /\ age.term < Larger(1, Grace) => age'.term = age.term + 1
         /\ termSent /\ age.term >= Larger(1, Grace) => age'.term = Larger(1, Grace)
         /\ ~killSent => age'.kill = 0
         /\ killSent => age'.kill <= KillWait
         /\ killSent /\ age.kill < KillWait => age'.kill = age.kill + 1
         /\ age'.wait <= age.wait + 1
         /\ age.wait < Grace \/ age.wait < Larger(1, Drain) => age'.wait = age.wait + 1
<1> DEFINE big == Larger(Grace, Larger(1, Drain))
<1>1. big \in Nat /\ big >= Grace /\ big >= Larger(1, Drain)
  BY Numbers, RunnerAssumption DEF Larger
<1>2. /\ age.start \in Nat /\ age.term \in Nat /\ age.kill \in Nat
      /\ age.exit \in Nat /\ age.wait \in Nat /\ asked \in Nat
      /\ timeout \in Nat
  BY DEF TypeOKRunner
<1>3. /\ Smaller(age.start + 1, timeout) \in Nat
      /\ Smaller(age.exit + 1, Drain) \in Nat
  BY <1>2, Counts, RunnerAssumption
<1>4. /\ Smaller(age.term + 1, Larger(1, Grace)) \in Nat
      /\ Smaller(age.term + 1, Larger(1, Grace)) <= Larger(1, Grace)
      /\ age.term < Larger(1, Grace) => Smaller(age.term + 1, Larger(1, Grace)) = age.term + 1
      /\ age.term >= Larger(1, Grace) => Smaller(age.term + 1, Larger(1, Grace)) = Larger(1, Grace)
  BY <1>2, Numbers DEF Smaller
<1>5. /\ Smaller(age.kill + 1, KillWait) \in Nat
      /\ Smaller(age.kill + 1, KillWait) <= KillWait
      /\ age.kill < KillWait => Smaller(age.kill + 1, KillWait) = age.kill + 1
  BY <1>2, Counts, RunnerAssumption
<1>6. /\ Smaller(age.wait + 1, big) \in Nat
      /\ Smaller(age.wait + 1, big) <= age.wait + 1
      /\ age.wait < big => Smaller(age.wait + 1, big) = age.wait + 1
  BY <1>1, <1>2, Counts
<1>7. /\ Smaller(asked + 1, Bound + 1) \in Nat
      /\ Smaller(asked + 1, Bound + 1) <= asked + 1
  BY <1>2, Counts, Numbers
<1>8. age' = [start |-> Smaller(age.start + 1, timeout),
              term |-> IF termSent THEN Smaller(age.term + 1, Larger(1, Grace)) ELSE 0,
              kill |-> IF killSent THEN Smaller(age.kill + 1, KillWait) ELSE 0,
              exit |-> IF leader = "reaped" THEN Smaller(age.exit + 1, Drain) ELSE 0,
              wait |-> Smaller(age.wait + 1, big)]
  BY DEF Tick
<1>9. asked' = IF shutdown THEN Smaller(asked + 1, Bound + 1) ELSE 0
  BY DEF Tick
<1> HIDE DEF big
<1>10. /\ age'.term = IF termSent THEN Smaller(age.term + 1, Larger(1, Grace)) ELSE 0
       /\ age'.kill = IF killSent THEN Smaller(age.kill + 1, KillWait) ELSE 0
       /\ age'.wait = Smaller(age.wait + 1, big)
  BY <1>8
<1>11. age' \in [start : Nat, term : Nat, kill : Nat, exit : Nat, wait : Nat]
  BY <1>3, <1>4, <1>5, <1>6, <1>8
<1>12. asked' \in Nat /\ asked' <= asked + 1 /\ (~shutdown => asked' = 0)
  BY <1>2, <1>7, <1>9
<1>13. age.wait < Grace \/ age.wait < Larger(1, Drain) => age.wait < big
  BY <1>1, <1>2, Numbers, RunnerAssumption
<1>14. /\ age'.wait <= age.wait + 1
       /\ age.wait < Grace \/ age.wait < Larger(1, Drain) => age'.wait = age.wait + 1
  BY <1>6, <1>10, <1>13
<1> QED BY <1>4, <1>5, <1>10, <1>11, <1>12, <1>14

\* Every step keeps the types.
LEMMA TypeStep ==
  ASSUME RunnerInv, [RunnerNext]_runnerVars
  PROVE  TypeOKRunner'
<1> USE RunnerAssumption DEF RunnerInv, TypeOKRunner, runnerVars, group, request, signals, Places, Signals
<1>1. CASE StartProcess
  <2>1. UNCHANGED <<exitCode, kids, denied, signal, shutdown, asking, timedOut, timeout,
                    termSent, killSent, killed, result, age, asked>>
    BY <1>1 DEF StartProcess
  <2>2. /\ readers' \in BOOLEAN /\ raised' \in BOOLEAN /\ at' \in Places
        /\ leader' \in {"none", "alive"} /\ leader \in {"none", "alive"}
    BY <1>1 DEF StartProcess, FlagsOK
  <2> QED BY <2>1, <2>2
<1>2. CASE CheckTimeout
  <2>1. UNCHANGED <<leader, exitCode, kids, denied, readers, asking, timeout,
                    termSent, killSent, killed, raised, result, age>>
    BY <1>2 DEF CheckTimeout
  <2>2. at' \in Places
    BY <1>2 DEF CheckTimeout
  <2>3. \/ timedOut' = TRUE /\ signal' = "term" /\ shutdown' = TRUE /\ asked' = 0
        \/ UNCHANGED <<timedOut, signal, shutdown, asked>>
    BY <1>2 DEF CheckTimeout
  <2>4. timedOut' \in BOOLEAN /\ shutdown' \in BOOLEAN /\ signal' \in Signals /\ asked' \in Nat
    <3>1. CASE timedOut' = TRUE /\ signal' = "term" /\ shutdown' = TRUE /\ asked' = 0 BY <3>1
    <3>2. CASE UNCHANGED <<timedOut, signal, shutdown, asked>> BY <3>2
    <3> QED BY <2>3, <3>1, <3>2
  <2> QED BY <2>1, <2>2, <2>4
<1>3. CASE Shutdown BY <1>3 DEF Shutdown, Polled, GraceOver
<1>4. CASE LookAtGroup BY <1>4 DEF LookAtGroup, GaveUp
<1>5. CASE PollLeader BY <1>5 DEF PollLeader, Polled, OutputRead
<1>6. CASE JoinReaders BY <1>6 DEF JoinReaders
<1>7. CASE MakeResult BY <1>7 DEF MakeResult, Polled
<1>8. CASE CleanUp
  <2>1. UNCHANGED <<exitCode, kids, denied, readers, signal, shutdown, asking, timedOut, timeout,
                    killSent, killed, raised, result, asked>>
    BY <1>8 DEF CleanUp
  <2>2. at' \in Places /\ termSent' \in BOOLEAN
    BY <1>8 DEF CleanUp, Leave
  <2>3. leader' = leader \/ leader' = Polled
    BY <1>8 DEF CleanUp
  <2>4. age' \in [start : Nat, term : Nat, kill : Nat, exit : Nat, wait : Nat]
    BY <1>8 DEF CleanUp
  <2> QED BY <2>1, <2>2, <2>3, <2>4 DEF Polled
<1>9. CASE CleanLoop BY <1>9 DEF CleanLoop, Polled
<1>10. CASE CleanKill BY <1>10 DEF CleanKill, Leave, Polled
<1>11. CASE Reap BY <1>11 DEF Reap, Leave, Polled
<1>12. CASE SuperviseRaises BY <1>12 DEF SuperviseRaises
<1>13. CASE Tick BY <1>13, TickTimes, Numbers DEF Tick, Waits
<1>14. CASE LeaderEnds BY <1>14 DEF LeaderEnds
<1>15. CASE KidsChange BY <1>15 DEF KidsChange
<1>16. CASE Deny BY <1>16 DEF Deny
<1>17. CASE ReadersEnd
  <2>1. UNCHANGED <<at, leader, exitCode, kids, denied, signal, shutdown, asking, timedOut, timeout,
                    termSent, killSent, killed, raised, result, age, asked>>
    BY <1>17 DEF ReadersEnd
  <2>2. readers' \in BOOLEAN BY <1>17 DEF ReadersEnd
  <2> QED BY <2>1, <2>2
<1>18. CASE Ask
  <2>1. UNCHANGED <<at, leader, exitCode, kids, denied, readers, timedOut, timeout,
                    termSent, killSent, killed, raised, result, age>>
    BY <1>18 DEF Ask
  <2>2. \/ /\ asking' = TRUE /\ signal' \in Signals
           /\ shutdown' = shutdown /\ asked' = asked
        \/ /\ asking' = FALSE /\ signal' = signal
           /\ shutdown' = TRUE /\ asked' \in Nat
    BY <1>18 DEF Ask
  <2>3. asking' \in BOOLEAN /\ shutdown' \in BOOLEAN /\ signal' \in Signals /\ asked' \in Nat
    BY <2>2
  <2> QED BY <2>1, <2>3
<1>19. CASE UNCHANGED runnerVars BY <1>19
<1> QED BY <1>1, <1>2, <1>3, <1>4, <1>5, <1>6, <1>7, <1>8, <1>9, <1>10, <1>11, <1>12, <1>13, <1>14, <1>15, <1>16, <1>17, <1>18, <1>19, RunnerCases

\* Every step keeps the flags in order.
LEMMA FlagsStep ==
  ASSUME RunnerInv, [RunnerNext]_runnerVars
  PROVE  FlagsOK'
<1> USE RunnerAssumption DEF RunnerInv, TypeOKRunner, runnerVars, group, request, signals, FlagsOK, Supervising, Signals
<1>1. CASE StartProcess BY <1>1 DEF StartProcess
<1>2. CASE CheckTimeout BY <1>2 DEF CheckTimeout
<1>3. CASE Shutdown BY <1>3 DEF Shutdown, Polled, GraceOver
<1>4. CASE LookAtGroup BY <1>4 DEF LookAtGroup, GaveUp
<1>5. CASE PollLeader BY <1>5 DEF PollLeader, Polled, OutputRead
<1>6. CASE JoinReaders BY <1>6 DEF JoinReaders
<1>7. CASE MakeResult BY <1>7 DEF MakeResult, Polled
<1>8. CASE CleanUp
  <2>1. /\ age'.term = age.term /\ age'.kill = age.kill
        /\ UNCHANGED <<signal, shutdown, asking, killSent, killed, raised, asked, kids>>
    BY <1>8 DEF CleanUp
  <2>2. leader # "none" /\ leader' # "none"
    BY <1>8 DEF CleanUp, Polled
  <2>3. termSent' => shutdown
    BY <1>8 DEF CleanUp
  <2>4. \/ at' = "clean" /\ termSent'
        \/ at' = "joinLast" /\ raised /\ termSent' = termSent
        \/ at' = "done" /\ ~raised /\ termSent' = termSent
    BY <1>8 DEF CleanUp, Leave
  <2>5. termSent => termSent'
    BY <1>8 DEF CleanUp
  <2> QED BY <2>1, <2>2, <2>3, <2>4, <2>5
<1>9. CASE CleanLoop BY <1>9 DEF CleanLoop, Polled
<1>10. CASE CleanKill BY <1>10 DEF CleanKill, Leave, Polled
<1>11. CASE Reap BY <1>11 DEF Reap, Leave, Polled
<1>12. CASE SuperviseRaises BY <1>12 DEF SuperviseRaises
<1>13. CASE Tick BY <1>13, TickTimes, Numbers DEF Tick, Waits
<1>14. CASE LeaderEnds BY <1>14 DEF LeaderEnds
<1>15. CASE KidsChange BY <1>15 DEF KidsChange
<1>16. CASE Deny BY <1>16 DEF Deny
<1>17. CASE ReadersEnd BY <1>17 DEF ReadersEnd
<1>18. CASE Ask BY <1>18 DEF Ask
<1>19. CASE UNCHANGED runnerVars BY <1>19
<1> QED BY <1>1, <1>2, <1>3, <1>4, <1>5, <1>6, <1>7, <1>8, <1>9, <1>10, <1>11, <1>12, <1>13, <1>14, <1>15, <1>16, <1>17, <1>18, <1>19, RunnerCases

\* Every step keeps what is known of the group.
LEMMA GroupStep ==
  ASSUME RunnerInv, [RunnerNext]_runnerVars
  PROVE  GroupOK'
<1> USE RunnerAssumption DEF RunnerInv, TypeOKRunner, runnerVars, group, request, signals, FlagsOK, GroupOK, GroupAlive, GroupAliveWith, GroupGone
<1>1. CASE StartProcess BY <1>1 DEF StartProcess
<1>2. CASE CheckTimeout BY <1>2 DEF CheckTimeout
<1>3. CASE Shutdown BY <1>3 DEF Shutdown, Polled, GraceOver
<1>4. CASE LookAtGroup BY <1>4 DEF LookAtGroup, GaveUp
<1>5. CASE PollLeader BY <1>5 DEF PollLeader, Polled, OutputRead
<1>6. CASE JoinReaders BY <1>6 DEF JoinReaders
<1>7. CASE MakeResult BY <1>7 DEF MakeResult, Polled
<1>8. CASE CleanUp BY <1>8 DEF CleanUp, Leave
<1>9. CASE CleanLoop BY <1>9 DEF CleanLoop, Polled
<1>10. CASE CleanKill BY <1>10 DEF CleanKill, Leave, Polled
<1>11. CASE Reap BY <1>11 DEF Reap, Leave, Polled
<1>12. CASE SuperviseRaises BY <1>12 DEF SuperviseRaises
<1>13. CASE Tick
  <2>1. /\ at' = "clean" => at = "cleanSleep"
        /\ at' # "cleanSleep"
        /\ at' # "cleanup"
        /\ at' \in {"cleanKill", "reap", "joinLast", "done"} => at' = at
    BY <1>13 DEF Tick, Waits
  <2>2. UNCHANGED <<leader, kids, denied, killed, raised, termSent, result>>
    BY <1>13 DEF Tick
  <2>3. at = "cleanSleep" =>
          /\ age'.wait = age.wait + 1
          /\ age.wait + 1 <= Grace
          /\ age'.wait <= age'.term
    BY <1>13, TickTimes, Numbers DEF LeaveTime
  <2>4. age.term >= Grace /\ termSent => age'.term >= Grace
    BY <1>13, TickTimes, Numbers
  <2> QED BY <2>1, <2>2, <2>3, <2>4
<1>14. CASE LeaderEnds BY <1>14 DEF LeaderEnds
<1>15. CASE KidsChange BY <1>15 DEF KidsChange
<1>16. CASE Deny BY <1>16 DEF Deny
<1>17. CASE ReadersEnd BY <1>17 DEF ReadersEnd
<1>18. CASE Ask BY <1>18 DEF Ask
<1>19. CASE UNCHANGED runnerVars BY <1>19
<1> QED BY <1>1, <1>2, <1>3, <1>4, <1>5, <1>6, <1>7, <1>8, <1>9, <1>10, <1>11, <1>12, <1>13, <1>14, <1>15, <1>16, <1>17, <1>18, <1>19, RunnerCases

\* Every step of the loop keeps within its time.
LEMMA LoopStep ==
  ASSUME RunnerInv, [RunnerNext]_runnerVars
  PROVE  LoopTime'
<1> USE RunnerAssumption DEF RunnerInv, TypeOKRunner, runnerVars, group, request, signals, FlagsOK, LoopTime, Supervising
<1>1. CASE StartProcess BY <1>1, Numbers DEF StartProcess
<1>2. CASE CheckTimeout BY <1>2, Numbers DEF CheckTimeout
<1>3. CASE Shutdown BY <1>3, Numbers DEF Shutdown, Polled, GraceOver
<1>4. CASE LookAtGroup BY <1>4, Numbers DEF LookAtGroup, GaveUp
<1>5. CASE PollLeader BY <1>5, Numbers DEF PollLeader, Polled, OutputRead
<1>6. CASE JoinReaders BY <1>6, Numbers DEF JoinReaders
<1>7. CASE MakeResult BY <1>7, Numbers DEF MakeResult, Polled
<1>8. CASE CleanUp BY <1>8, Numbers DEF CleanUp, Leave
<1>9. CASE CleanLoop BY <1>9, Numbers DEF CleanLoop, Polled
<1>10. CASE CleanKill BY <1>10, Numbers DEF CleanKill, Leave, Polled
<1>11. CASE Reap BY <1>11, Numbers DEF Reap, Leave, Polled
<1>12. CASE SuperviseRaises BY <1>12, Numbers DEF SuperviseRaises
<1>13. CASE Tick BY <1>13, TickTimes, Numbers DEF Tick, Waits
<1>14. CASE LeaderEnds BY <1>14, Numbers DEF LeaderEnds
<1>15. CASE KidsChange BY <1>15, Numbers DEF KidsChange
<1>16. CASE Deny BY <1>16, Numbers DEF Deny
<1>17. CASE ReadersEnd BY <1>17, Numbers DEF ReadersEnd
<1>18. CASE Ask BY <1>18, Numbers DEF Ask
<1>19. CASE UNCHANGED runnerVars BY <1>19
<1> QED BY <1>1, <1>2, <1>3, <1>4, <1>5, <1>6, <1>7, <1>8, <1>9, <1>10, <1>11, <1>12, <1>13, <1>14, <1>15, <1>16, <1>17, <1>18, <1>19, RunnerCases

\* Every step after the loop keeps within its time.
LEMMA LeaveStep ==
  ASSUME RunnerInv, [RunnerNext]_runnerVars
  PROVE  LeaveTime'
<1> USE RunnerAssumption DEF RunnerInv, TypeOKRunner, runnerVars, group, request, signals, FlagsOK, LoopTime, LeaveTime, Supervising, GroupAlive, GroupAliveWith
<1>1. CASE StartProcess BY <1>1, Numbers DEF StartProcess
<1>2. CASE CheckTimeout BY <1>2, Numbers DEF CheckTimeout
<1>3. CASE Shutdown BY <1>3, Numbers DEF Shutdown, Polled, GraceOver
<1>4. CASE LookAtGroup BY <1>4, Numbers DEF LookAtGroup, GaveUp
<1>5. CASE PollLeader BY <1>5, Numbers DEF PollLeader, Polled, OutputRead
<1>6. CASE JoinReaders BY <1>6, Numbers DEF JoinReaders
<1>7. CASE MakeResult BY <1>7, Numbers DEF MakeResult, Polled
<1>8. CASE CleanUp BY <1>8, Numbers DEF CleanUp, Leave
<1>9. CASE CleanLoop
  <2>1. /\ (at' = "cleanKill") \/ (at' = "cleanSleep" /\ ~(age.wait >= Grace))
        /\ UNCHANGED <<age, asked>>
        /\ leader = "reaped" => leader' = "reaped"
    BY <1>9 DEF CleanLoop, Polled
  <2>2. age.wait <= Grace BY <1>9 DEF CleanLoop, GroupOK
  <2>3. at = "clean" BY <1>9 DEF CleanLoop
  <2> QED BY <2>1, <2>2, <2>3, Numbers
<1>10. CASE CleanKill BY <1>10, Numbers DEF CleanKill, Leave, Polled
<1>11. CASE Reap BY <1>11, Numbers DEF Reap, Leave, Polled
<1>12. CASE SuperviseRaises BY <1>12, Numbers DEF SuperviseRaises
<1>13. CASE Tick BY <1>13, TickTimes, Numbers DEF Tick, Waits
<1>14. CASE LeaderEnds BY <1>14, Numbers DEF LeaderEnds
<1>15. CASE KidsChange BY <1>15, Numbers DEF KidsChange
<1>16. CASE Deny BY <1>16, Numbers DEF Deny
<1>17. CASE ReadersEnd BY <1>17, Numbers DEF ReadersEnd
<1>18. CASE Ask BY <1>18, Numbers DEF Ask
<1>19. CASE UNCHANGED runnerVars BY <1>19
<1> QED BY <1>1, <1>2, <1>3, <1>4, <1>5, <1>6, <1>7, <1>8, <1>9, <1>10, <1>11, <1>12, <1>13, <1>14, <1>15, <1>16, <1>17, <1>18, <1>19, RunnerCases

\* The inductive invariant holds from the start.
LEMMA RunnerInvInit == RunnerInit => RunnerInv
<1> SUFFICES ASSUME RunnerInit PROVE RunnerInv
  OBVIOUS
<1> USE RunnerAssumption DEF RunnerInit
<1>1. TypeOKRunner BY DEF TypeOKRunner, Places, Signals, NoResult
<1>2. FlagsOK BY DEF FlagsOK, Supervising
<1>3. GroupOK BY DEF GroupOK
<1>4. LoopTime BY Numbers DEF LoopTime, Supervising
<1>5. LeaveTime BY DEF LeaveTime
<1> QED BY <1>1, <1>2, <1>3, <1>4, <1>5 DEF RunnerInv

\* It is an invariant of the specification.
LEMMA RunnerInvariant == RunnerSpec => []RunnerInv
<1>1. RunnerInv /\ [RunnerNext]_runnerVars => RunnerInv'
  BY TypeStep, FlagsStep, GroupStep, LoopStep, LeaveStep DEF RunnerInv
<1> QED BY <1>1, RunnerInvInit, PTL DEF RunnerSpec

\* BoundedShutdown: run() is back within Bound ticks of a requested shutdown,
\* for every timeout, grace and wait the runner can be given.
THEOREM BoundedShutdownThm == RunnerSpec => []BoundedShutdown
<1>1. RunnerInv => BoundedShutdown
  <2> SUFFICES ASSUME RunnerInv, at # "done" PROVE asked <= Bound
    BY DEF BoundedShutdown
  <2> USE RunnerAssumption, Numbers DEF RunnerInv, TypeOKRunner
  <2>1. CASE at \in Supervising
    BY <2>1 DEF LoopTime
  <2>2. CASE at \in {"join", "result", "cleanup"}
    BY <2>2 DEF LeaveTime
  <2>3. CASE at \in {"clean", "cleanSleep", "cleanKill", "reap", "joinLast"}
    BY <2>3 DEF LeaveTime, GroupOK
  <2> QED BY <2>1, <2>2, <2>3 DEF Places, Supervising
<1> QED BY <1>1, RunnerInvariant, PTL

\* StoppedIsNotSuccess: a run whose group was sent SIGTERM never reads as
\* succeeded, however the child answered the signal.
THEOREM StoppedIsNotSuccessThm == RunnerSpec => []StoppedIsNotSuccess
<1>1. RunnerInv => StoppedIsNotSuccess
  BY DEF RunnerInv, GroupOK, StoppedIsNotSuccess, Succeeded
<1> QED BY <1>1, RunnerInvariant, PTL

\* StoppedGroupEnds: a run that was stopped, timed out or raised leaves no
\* process of its group that was not sent SIGKILL.
THEOREM StoppedGroupEndsThm == RunnerSpec => []StoppedGroupEnds
<1>1. RunnerInv => StoppedGroupEnds
  BY DEF RunnerInv, GroupOK, StoppedGroupEnds, GroupGone
<1> QED BY <1>1, RunnerInvariant, PTL

\* GraceBeforeKill: SIGKILL follows SIGTERM by the whole grace at least.
THEOREM GraceBeforeKillThm == RunnerSpec => GraceBeforeKill
<1>1. RunnerInv /\ [RunnerNext]_runnerVars
        => [~killed /\ killed' => termSent /\ age.term >= Grace]_runnerVars
  <2> SUFFICES ASSUME RunnerInv, [RunnerNext]_runnerVars, ~killed, killed'
               PROVE  termSent /\ age.term >= Grace
    OBVIOUS
  <2>1. Shutdown \/ CleanKill
    BY RunnerCases DEF StartProcess, CheckTimeout, LookAtGroup, PollLeader, JoinReaders,
         MakeResult, CleanUp, CleanLoop, Reap, SuperviseRaises, Tick, LeaderEnds,
         KidsChange, Deny, ReadersEnd, Ask, signals, runnerVars
  <2>2. CASE Shutdown BY <2>2 DEF Shutdown, GraceOver
  <2>3. CASE CleanKill
    BY <2>3 DEF CleanKill, RunnerInv, GroupOK, FlagsOK
  <2> QED BY <2>1, <2>2, <2>3
<1> QED BY <1>1, RunnerInvariant, PTL DEF RunnerSpec, GraceBeforeKill

\* The three together: a shutdown ends in time, is told, and leaves nothing.
THEOREM ShutdownSafeThm == RunnerSpec => []ShutdownSafe
<1>1. BoundedShutdown /\ StoppedIsNotSuccess /\ StoppedGroupEnds => ShutdownSafe
  BY DEF ShutdownSafe
<1> QED BY <1>1, BoundedShutdownThm, StoppedIsNotSuccessThm, StoppedGroupEndsThm, PTL

----------------------------------------------------------------------------
(* The start of a child (SpawnChild), for any number of threads.             *)

\* One thread at a time stands between making its pipe inheritable and closing
\* its end of it, so the helper it starts is the only one to hold that pipe: who
\* holds a pipe can be read off its thread and off its own helper.
Locked == {"inheritable", "spawned", "unstarted"}
CallSteps == Locked \cup {"new", "piped", "reading", "started", "raised", "abandoned"}
HelperSteps == {"none", "starting", "clean", "reporting", "command"} \cup Gone

SpawnTypeOK ==
  /\ call \in [Threads -> CallSteps] /\ helper \in [Threads -> HelperSteps]
  /\ writers \in [Threads -> SUBSET (Threads \cup {Parent})]
  /\ lockHeld \subseteq Threads /\ reported \subseteq Threads

SpawnInv ==
  /\ SpawnTypeOK
  /\ inheritable = lockHeld
  /\ \A t, u \in lockHeld : t = u
  /\ \A t \in Threads :
       /\ t \in lockHeld <=> call[t] \in Locked
       /\ writers[t] \subseteq {t, Parent}
       /\ Parent \in writers[t] <=> call[t] \in Locked \cup {"piped"}
       /\ t \in writers[t] <=> helper[t] \in {"starting", "clean", "reporting"}
       /\ t \in reported <=> helper[t] \in {"reporting", "failed"}
       /\ call[t] \in {"new", "piped", "inheritable", "unstarted"} => helper[t] = "none"
       /\ call[t] \in {"spawned", "reading", "abandoned"} => helper[t] # "none"
       /\ call[t] = "started" => helper[t] \in {"command", "ended", "killed"}
       /\ call[t] = "raised" => helper[t] \in {"none", "failed"}

\* Every step of a thread or of a helper preserves it.
LEMMA SpawnInvNext == SpawnInv /\ [SpawnNext]_spawnVars => SpawnInv'
<1> SUFFICES ASSUME SpawnInv, [SpawnNext]_spawnVars PROVE SpawnInv'
  OBVIOUS
<1> USE SpawnAssumption DEF SpawnInv, SpawnTypeOK, Locked, CallSteps, HelperSteps, Gone, Parent
<1>1. CASE UNCHANGED spawnVars BY <1>1 DEF spawnVars
<1>2. ASSUME NEW t \in Threads, MakePipe(t) PROVE SpawnInv'
  BY <1>2 DEF MakePipe, At
<1>3. ASSUME NEW t \in Threads, MakeInheritable(t) PROVE SpawnInv'
  BY <1>3 DEF MakeInheritable, LockIsFree, At
<1>4. ASSUME NEW t \in Threads, StartHelper(t) PROVE SpawnInv'
  <2>1. inheritable = {t} BY <1>4 DEF StartHelper, At
  <2>2. writers' = [writers EXCEPT ![t] = writers[t] \cup {t}]
    BY <1>4, <2>1 DEF StartHelper, At
  <2> QED BY <1>4, <2>2 DEF StartHelper, At
<1>5. ASSUME NEW t \in Threads, NoHelper(t) PROVE SpawnInv'
  BY <1>5 DEF NoHelper, At
<1>6. ASSUME NEW t \in Threads, CloseWriteEnd(t) PROVE SpawnInv'
  BY <1>6 DEF CloseWriteEnd, At, Drops
<1>7. ASSUME NEW t \in Threads, ReadStatus(t) PROVE SpawnInv'
  BY <1>7 DEF ReadStatus, At
<1>8. ASSUME NEW t \in Threads, Interrupted(t) PROVE SpawnInv'
  BY <1>8 DEF Interrupted, At
<1>9. ASSUME NEW t \in Threads, CloseDescriptors(t) PROVE SpawnInv'
  BY <1>9 DEF CloseDescriptors, HelperMoves, Drops
<1>10. ASSUME NEW t \in Threads, Exec(t) PROVE SpawnInv'
  BY <1>10 DEF Exec, HelperMoves, Drops
<1>11. ASSUME NEW t \in Threads, ReportError(t) PROVE SpawnInv'
  BY <1>11 DEF ReportError, HelperMoves
<1>12. ASSUME NEW t \in Threads, HelperFails(t) PROVE SpawnInv'
  BY <1>12 DEF HelperFails, HelperMoves, Drops
<1>13. ASSUME NEW t \in Threads, HelperKilled(t) PROVE SpawnInv'
  BY <1>13 DEF HelperKilled, HelperMoves, Drops
<1>14. ASSUME NEW t \in Threads, CommandEnds(t) PROVE SpawnInv'
  BY <1>14 DEF CommandEnds, HelperMoves
<1> QED
  BY <1>1, <1>2, <1>3, <1>4, <1>5, <1>6, <1>7, <1>8, <1>9, <1>10, <1>11, <1>12,
     <1>13, <1>14 DEF SpawnNext

\* For any number of threads that start children at once, each waits for its own
\* child alone, no command inherits a pipe, and what is said of a child is so.
THEOREM ChildrenStartThm == SpawnSpec => []ChildrenStart
<1>1. SpawnInit => SpawnInv
  BY SpawnAssumption DEF SpawnInit, SpawnInv, SpawnTypeOK, Locked, CallSteps, HelperSteps, Gone, Parent
<1>2. SpawnInv => ChildrenStart
  BY SpawnAssumption DEF SpawnInv, SpawnTypeOK, ChildrenStart, WaitsForItsOwn, SaidTrue, Locked, CallSteps,
     HelperSteps, Gone, Parent
<1> QED BY <1>1, <1>2, SpawnInvNext, PTL DEF SpawnSpec

------------------------------------------------------------------------------
(* The run lock.                                                              *)

\* What the lock file may name: nothing, a child that has ended, one the lock
\* cannot answer for, or the child of the holder's run.
Settled(c) == c = None \/ c \notin live \/ c \in Excused

\* Inside the lock the file is settled, except for the run's own child.
HolderOK ==
  /\ \A p \in Procs : place[p] \in {"write", "spawned"} => Settled(named)
  /\ \A p \in Procs : place[p] = "held" => Settled(named) \/ named = mine[p]
  /\ \A p \in Procs : place[p] \notin {"held", "spawned"} => mine[p] = None
  /\ \A p \in Procs : place[p] = "spawned" => mine[p] \in Children \ recorded
  /\ \A p \in Procs : mine[p] \notin unused
  /\ recorded \cap unused = {}

LockInv == LockTypeOK /\ HolderOK /\ RecordStands

\* The steps of the specification, one by one.
LEMMA LockCases ==
  ASSUME [LockNext]_lockVars
  PROVE  \/ \E p \in Procs :
              \/ Flock(p) \/ CheckOrphan(p) \/ WriteHolder(p) \/ RecordChild(p)
              \/ RunReturned(p) \/ Release(p) \/ Close(p) \/ Killed(p)
              \/ \E c \in Children : Spawn(p, c)
         \/ \E c \in Children : LockedChildEnds(c)
         \/ Probe
         \/ UNCHANGED lockVars
BY DEF LockNext

\* Every step keeps the types and the exclusion.
LEMMA LockTypeStep ==
  ASSUME LockInv, [LockNext]_lockVars
  PROVE  LockTypeOK'
<1> USE LockAssumption DEF LockInv, LockTypeOK, lockVars, history, Go, Steps, HolderOK
<1>1. ASSUME NEW p \in Procs, Flock(p) PROVE LockTypeOK'
  BY <1>1 DEF Flock
<1>2. ASSUME NEW p \in Procs, CheckOrphan(p) PROVE LockTypeOK'
  BY <1>2 DEF CheckOrphan, OrphanSeen
<1>3. ASSUME NEW p \in Procs, WriteHolder(p) PROVE LockTypeOK'
  BY <1>3 DEF WriteHolder
<1>4. ASSUME NEW p \in Procs, RecordChild(p) PROVE LockTypeOK'
  BY <1>4 DEF RecordChild
<1>5. ASSUME NEW p \in Procs, RunReturned(p) PROVE LockTypeOK'
  BY <1>5 DEF RunReturned
<1>6. ASSUME NEW p \in Procs, Release(p) PROVE LockTypeOK'
  BY <1>6 DEF Release, MayRelease
<1>7. ASSUME NEW p \in Procs, Close(p) PROVE LockTypeOK'
  BY <1>7 DEF Close
<1>8. ASSUME NEW p \in Procs, Killed(p) PROVE LockTypeOK'
  BY <1>8 DEF Killed
<1>9. ASSUME NEW p \in Procs, NEW c \in Children, Spawn(p, c) PROVE LockTypeOK'
  BY <1>9 DEF Spawn
<1>10. ASSUME NEW c \in Children, LockedChildEnds(c) PROVE LockTypeOK'
  BY <1>10 DEF LockedChildEnds
<1>11. CASE Probe BY <1>11 DEF Probe
<1>12. CASE UNCHANGED lockVars BY <1>12
<1> QED BY <1>1, <1>2, <1>3, <1>4, <1>5, <1>6, <1>7, <1>8, <1>9, <1>10, <1>11, <1>12, LockCases

\* Every step keeps what the holder knows of the file.
LEMMA HolderStep ==
  ASSUME LockInv, [LockNext]_lockVars
  PROVE  HolderOK'
<1> USE LockAssumption DEF LockInv, LockTypeOK, lockVars, history, Go, HolderOK, RecordStands, Excused, Settled
<1>1. ASSUME NEW p \in Procs, Flock(p) PROVE HolderOK'
  BY <1>1 DEF Flock
<1>2. ASSUME NEW p \in Procs, CheckOrphan(p) PROVE HolderOK'
  BY <1>2 DEF CheckOrphan, OrphanSeen
<1>3. ASSUME NEW p \in Procs, WriteHolder(p) PROVE HolderOK'
  BY <1>3 DEF WriteHolder
<1>4. ASSUME NEW p \in Procs, RecordChild(p) PROVE HolderOK'
  BY <1>4 DEF RecordChild
<1>5. ASSUME NEW p \in Procs, RunReturned(p) PROVE HolderOK'
  BY <1>5 DEF RunReturned
<1>6. ASSUME NEW p \in Procs, Release(p) PROVE HolderOK'
  BY <1>6 DEF Release, MayRelease
<1>7. ASSUME NEW p \in Procs, Close(p) PROVE HolderOK'
  BY <1>7 DEF Close
<1>8. ASSUME NEW p \in Procs, Killed(p) PROVE HolderOK'
  BY <1>8 DEF Killed
<1>9. ASSUME NEW p \in Procs, NEW c \in Children, Spawn(p, c) PROVE HolderOK'
  BY <1>9 DEF Spawn
<1>10. ASSUME NEW c \in Children, LockedChildEnds(c) PROVE HolderOK'
  BY <1>10 DEF LockedChildEnds
<1>11. CASE Probe BY <1>11 DEF Probe
<1>12. CASE UNCHANGED lockVars BY <1>12
<1> QED BY <1>1, <1>2, <1>3, <1>4, <1>5, <1>6, <1>7, <1>8, <1>9, <1>10, <1>11, <1>12, LockCases

\* Every step keeps the driving child named.
LEMMA RecordStep ==
  ASSUME LockInv, [LockNext]_lockVars
  PROVE  RecordStands'
<1> USE LockAssumption DEF LockInv, LockTypeOK, lockVars, history, Go, HolderOK, RecordStands, Excused, Settled
<1>1. ASSUME NEW p \in Procs, Flock(p) PROVE RecordStands'
  BY <1>1 DEF Flock
<1>2. ASSUME NEW p \in Procs, CheckOrphan(p) PROVE RecordStands'
  BY <1>2 DEF CheckOrphan, OrphanSeen
<1>3. ASSUME NEW p \in Procs, WriteHolder(p) PROVE RecordStands'
  BY <1>3 DEF WriteHolder
<1>4. ASSUME NEW p \in Procs, RecordChild(p) PROVE RecordStands'
  BY <1>4 DEF RecordChild
<1>5. ASSUME NEW p \in Procs, RunReturned(p) PROVE RecordStands'
  BY <1>5 DEF RunReturned
<1>6. ASSUME NEW p \in Procs, Release(p) PROVE RecordStands'
  BY <1>6 DEF Release, MayRelease
<1>7. ASSUME NEW p \in Procs, Close(p) PROVE RecordStands'
  BY <1>7 DEF Close
<1>8. ASSUME NEW p \in Procs, Killed(p) PROVE RecordStands'
  BY <1>8 DEF Killed
<1>9. ASSUME NEW p \in Procs, NEW c \in Children, Spawn(p, c) PROVE RecordStands'
  BY <1>9 DEF Spawn
<1>10. ASSUME NEW c \in Children, LockedChildEnds(c) PROVE RecordStands'
  BY <1>10 DEF LockedChildEnds
<1>11. CASE Probe BY <1>11 DEF Probe
<1>12. CASE UNCHANGED lockVars BY <1>12
<1> QED BY <1>1, <1>2, <1>3, <1>4, <1>5, <1>6, <1>7, <1>8, <1>9, <1>10, <1>11, <1>12, LockCases

\* The inductive invariant is an invariant of the specification.
LEMMA LockInvariant == LockSpec => []LockInv
<1>1. LockInit => LockInv
  BY LockAssumption DEF LockInit, LockInv, LockTypeOK, HolderOK, RecordStands, Settled,
       Steps
<1>2. LockInv /\ [LockNext]_lockVars => LockInv'
  BY LockTypeStep, HolderStep, RecordStep DEF LockInv
<1> QED BY <1>1, <1>2, PTL DEF LockSpec

\* RecordStands: the lock file names the child that drives the GPU, whichever
\* processes are killed, refused or probing.
THEOREM RecordStandsThm == LockSpec => []RecordStands
BY LockInvariant, PTL DEF LockInv

\* DriversExplained: two children run at once only when one of them was never
\* written down, outlived its SIGKILL, or was overlooked by a failed check.
THEOREM DriversExplainedThm == LockSpec => []DriversExplained
<1>1. LockInv => DriversExplained
  BY DEF LockInv, RecordStands, DriversExplained
<1> QED BY <1>1, LockInvariant, PTL
==============================================================================
