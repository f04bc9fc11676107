-------------------------- MODULE CronScheduleProofs --------------------------
(***************************************************************************)
(* The crontab entry of rfcMgr for any number of processes, schedules and  *)
(* lines of other services: a run that nobody disturbs leaves its own line *)
(* and everybody else's, with DCM's last schedule, and what it writes is   *)
(* the schedule three minutes earlier for the movable schedules, and not   *)
(* for the others.                                                         *)
(***************************************************************************)
EXTENDS CronSchedule, TLAPS

(***************************************************************************)
(* Types.                                                                  *)
(***************************************************************************)

\* The text manageCronJob writes for a schedule is a schedule: minute and
\* hour never become negative.
LEMMA AdjustedType ==
  ASSUME NEW s \in Schedules
  PROVE  Adjusted(s) \in Schedule
<1>1. s \in Schedule
  BY ScheduleAssumption
<1>2. \A f \in {"minute", "hour", "day"} : Value(s, f) \in Nat
  BY <1>1 DEF Value, Schedule, Field
<1>3. AdjustedMinute(s) \in Nat /\ AdjustedHour(s) \in Nat
  BY <1>2 DEF AdjustedMinute, AdjustedHour, Borrows
<1>4. \A n \in Nat : Number(n) \in Field
  BY DEF Number, Field
<1>5. /\ Number(AdjustedMinute(s)) \in Field
      /\ Number(AdjustedHour(s)) \in Field
      /\ Number(Value(s, "day")) \in Field
  BY <1>2, <1>3, <1>4
<1>6. s.minute \in Field /\ s.hour \in Field /\ s.day \in Field
  BY <1>1 DEF Schedule
<1> QED
  BY <1>5, <1>6 DEF Adjusted, Schedule

\* A crontab is not the missing file.
LEMMA EmptyTab ==
  /\ Empty \in Tab /\ Empty.rfc = <<>> /\ Empty.others = {}
  /\ [Empty EXCEPT !.others = {Complaint}] \in Tab
  /\ [Empty EXCEPT !.others = {Complaint}].others = {Complaint}
  /\ \A t \in Tab : t # NoFile
<1>1. <<>> \in Seq(Schedule)
  OBVIOUS
<1>2. \A o \in SUBSET (Entries \cup {Complaint}) : [rfc |-> <<>>, others |-> o] \in Tab
  BY <1>1 DEF Tab
<1>3. \A o : [Empty EXCEPT !.others = o] = [rfc |-> <<>>, others |-> o]
  BY DEF Empty
<1> QED
  BY <1>2, <1>3, NoFileAssumption DEF Empty

\* What sed leaves.
LEMMA DeletedTab ==
  ASSUME NEW t \in Tab
  PROVE  /\ [t EXCEPT !.rfc = <<>>] \in Tab
         /\ [t EXCEPT !.rfc = <<>>].rfc = <<>>
         /\ [t EXCEPT !.rfc = <<>>].others = t.others
<1>1. <<>> \in Seq(Schedule)
  OBVIOUS
<1> QED
  BY <1>1 DEF Tab

\* The new entry comes last.
LEMMA AppendedTab ==
  ASSUME NEW t \in Tab, NEW s \in Schedules
  PROVE  /\ [t EXCEPT !.rfc = Append(@, Adjusted(s))] \in Tab
         /\ [t EXCEPT !.rfc = Append(@, Adjusted(s))].others = t.others
         /\ t.rfc = <<>> => [t EXCEPT !.rfc = Append(@, Adjusted(s))].rfc = <<Adjusted(s)>>
<1>1. Append(t.rfc, Adjusted(s)) \in Seq(Schedule)
  BY AdjustedType DEF Tab
<1>2. t.rfc = <<>> => Append(t.rfc, Adjusted(s)) = <<Adjusted(s)>>
  OBVIOUS
<1> QED
  BY <1>1, <1>2 DEF Tab

\* Another service changes its lines.
LEMMA EditedTab ==
  ASSUME NEW t \in Tab, NEW lines \in SUBSET Entries
  PROVE  /\ [t EXCEPT !.others = (@ \cap {Complaint}) \cup lines] \in Tab
         /\ [t EXCEPT !.others = (@ \cap {Complaint}) \cup lines].rfc = t.rfc
         /\ [t EXCEPT !.others = (@ \cap {Complaint}) \cup lines].others \ {Complaint} = lines
         /\ [Empty EXCEPT !.others = lines] \in Tab
         /\ [Empty EXCEPT !.others = lines].others \ {Complaint} = lines
<1>1. Complaint \notin lines
  BY ScheduleAssumption
<1>2. (t.others \cap {Complaint}) \cup lines \subseteq Entries \cup {Complaint}
  OBVIOUS
<1>3. ((t.others \cap {Complaint}) \cup lines) \ {Complaint} = lines
  BY <1>1
<1>4. /\ [t EXCEPT !.others = (@ \cap {Complaint}) \cup lines] \in Tab
      /\ [t EXCEPT !.others = (@ \cap {Complaint}) \cup lines].rfc = t.rfc
      /\ [t EXCEPT !.others = (@ \cap {Complaint}) \cup lines].others = (t.others \cap {Complaint}) \cup lines
  BY <1>2 DEF Tab
<1>5. [Empty EXCEPT !.others = lines] \in Tab /\ [Empty EXCEPT !.others = lines].others = lines
  <2>1. <<>> \in Seq(Schedule)
    OBVIOUS
  <2>2. [Empty EXCEPT !.others = lines] = [rfc |-> <<>>, others |-> lines]
    BY DEF Empty
  <2> QED
    BY <2>1, <2>2 DEF Tab
<1> QED
  BY <1>1, <1>3, <1>4, <1>5

\* AppendEntry, with the crontab it appends to and the file it leaves.
LEMMA AppendEntryFile ==
  ASSUME TypeOK, AcceptedInv, NEW p \in Procs, AppendEntry(p)
  PROVE  /\ cron[p] \in Schedules
         /\ tmp' \in Tab
         /\ tmp # NoFile => tmp'.others = tmp.others
         /\ tmp = NoFile \/ tmp.rfc = <<>> => tmp'.rfc = <<Adjusted(cron[p])>>
<1> DEFINE t == IF tmp = NoFile THEN Empty ELSE tmp
<1>1. cron[p] \in Schedules
  BY DEF AppendEntry, AcceptedInv, Accepted
<1>2. t \in Tab /\ (tmp = NoFile => t.rfc = <<>>)
  BY EmptyTab DEF TypeOK
<1>3. tmp' = [t EXCEPT !.rfc = Append(@, Adjusted(cron[p]))]
  BY DEF AppendEntry
<1>4. tmp # NoFile => t = tmp
  OBVIOUS
<1> HIDE DEF t
<1> QED
  BY <1>1, <1>2, <1>3, <1>4, AppendedTab

\* Edit leaves rfcMgr's lines, and the others are the ones it wants.
LEMMA EditCrontab ==
  ASSUME TypeOK, NEW lines \in SUBSET Entries, Edit(lines)
  PROVE  /\ crontab' \in Tab
         /\ crontab' # NoFile
         /\ crontab # NoFile => crontab'.rfc = crontab.rfc
         /\ crontab'.others \ {Complaint} = lines
<1>1. CASE crontab = NoFile
  BY <1>1, EmptyTab, EditedTab DEF Edit
<1>2. CASE crontab # NoFile
  BY <1>2, EmptyTab, EditedTab DEF Edit, TypeOK
<1> QED
  BY <1>1, <1>2

\* Every step keeps the types.
LEMMA TypeStep ==
  ASSUME TypeOK, AcceptedInv, [Next]_vars
  PROVE  TypeOK'
<1>1. ASSUME NEW p \in Procs, Start(p) PROVE TypeOK'
  BY <1>1 DEF Start, TypeOK, Steps, Goto
<1>2. ASSUME NEW p \in Procs, StartBeside(p) PROVE TypeOK'
  BY <1>2 DEF StartBeside, TypeOK, Steps, Goto, Event, Disturb
<1>3. ASSUME NEW p \in Procs, FoundInDcm(p) PROVE TypeOK'
  BY <1>3 DEF FoundInDcm, TypeOK, Steps, Goto
<1>4. ASSUME NEW p \in Procs, SaveCopy(p) PROVE TypeOK'
  BY <1>4 DEF SaveCopy, TypeOK, Steps, Goto
<1>5. ASSUME NEW p \in Procs, NotInDcm(p) PROVE TypeOK'
  BY <1>5 DEF NotInDcm, TypeOK, Steps, Goto, Lines
<1>6. ASSUME NEW p \in Procs, FoundInCopy(p) PROVE TypeOK'
  BY <1>6 DEF FoundInCopy, TypeOK, Steps, Goto, Lines
<1>7. ASSUME NEW p \in Procs, Export(p) PROVE TypeOK'
  BY <1>7, EmptyTab DEF Export, TypeOK, Steps, Goto
<1>8. ASSUME NEW p \in Procs, ExportFails(p) PROVE TypeOK'
  BY <1>8, EmptyTab DEF ExportFails, TypeOK, Steps, Goto, Event, Disturb
<1>9. ASSUME NEW p \in Procs, DeleteEntry(p) PROVE TypeOK'
  BY <1>9, DeletedTab DEF DeleteEntry, TypeOK, Steps, Goto
<1>10. ASSUME NEW p \in Procs, DeleteFails(p) PROVE TypeOK'
  BY <1>10 DEF DeleteFails, TypeOK, Steps, Goto, Event, Disturb
<1>11. ASSUME NEW p \in Procs, AppendEntry(p) PROVE TypeOK'
  BY <1>11, AppendEntryFile DEF AppendEntry, TypeOK, Steps, Goto
<1>12. ASSUME NEW p \in Procs, AppendFails(p) PROVE TypeOK'
  BY <1>12 DEF AppendFails, TypeOK, Steps, Goto, Event, Disturb
<1>13. ASSUME NEW p \in Procs, Apply(p) PROVE TypeOK'
  BY <1>13 DEF Apply, TypeOK, Steps, Goto
<1>14. ASSUME NEW p \in Procs, ApplyFails(p) PROVE TypeOK'
  BY <1>14 DEF ApplyFails, TypeOK, Steps, Goto, Event, Disturb
<1>15. ASSUME NEW p \in Procs, Unlink(p) PROVE TypeOK'
  BY <1>15 DEF Unlink, TypeOK, Steps, Goto
<1>16. ASSUME NEW p \in Procs, Die(p) PROVE TypeOK'
  BY <1>16 DEF Die, TypeOK, Steps, Goto, Event
<1>17. ASSUME NEW v \in {NoLine} \cup Lines, Publish(v) PROVE TypeOK'
  BY <1>17 DEF Publish, TypeOK, Event
<1>18. ASSUME NEW lines \in SUBSET Entries, Edit(lines) PROVE TypeOK'
  <2>1. crontab' \in Tab
    BY <1>18, EditCrontab
  <2>2. wanted' = lines /\ clean' \subseteq clean /\ disturbed' \in BOOLEAN /\ events' = events + 1
    BY <1>18 DEF Edit, Disturb, Event
  <2>3. UNCHANGED <<dcm, copy, tmp, pc, cron, latest, saved>>
    BY <1>18 DEF Edit
  <2> QED
    BY <2>1, <2>2, <2>3 DEF TypeOK
<1>19. CASE Reboot
  BY <1>19 DEF Reboot, TypeOK, Steps, Event
<1>20. CASE UNCHANGED vars
  BY <1>20 DEF vars, TypeOK
<1>21. ASSUME NEW p \in Procs, CopyUnopened(p) PROVE TypeOK'
  BY <1>21 DEF CopyUnopened, TypeOK, Steps, Goto, Event
<1>22. ASSUME NEW p \in Procs, SaveFails(p) PROVE TypeOK'
  BY <1>22 DEF SaveFails, TypeOK, Steps, Goto, Event
<1> QED
  BY <1>1, <1>2, <1>3, <1>4, <1>5, <1>6, <1>7, <1>8, <1>9, <1>10,
     <1>11, <1>12, <1>13, <1>14, <1>15, <1>16, <1>17, <1>18, <1>19, <1>20, <1>21, <1>22
     DEF Next, GetCronFromDCMSettings, ManageCronJob

\* Only a schedule of five fields gets as far as the crontab.
LEMMA AcceptedStep ==
  ASSUME TypeOK, AcceptedInv, [Next]_vars
  PROVE  AcceptedInv'
<1>1. ASSUME NEW p \in Procs, Start(p) PROVE AcceptedInv'
  BY <1>1 DEF Start, AcceptedInv, Accepted, Goto
<1>2. ASSUME NEW p \in Procs, StartBeside(p) PROVE AcceptedInv'
  BY <1>2 DEF StartBeside, AcceptedInv, Accepted, Goto
<1>3. ASSUME NEW p \in Procs, FoundInDcm(p) PROVE AcceptedInv'
  BY <1>3 DEF FoundInDcm, AcceptedInv, Accepted, Goto
<1>4. ASSUME NEW p \in Procs, SaveCopy(p) PROVE AcceptedInv'
  BY <1>4 DEF SaveCopy, AcceptedInv, Accepted, Accepts, Goto
<1>5. ASSUME NEW p \in Procs, NotInDcm(p) PROVE AcceptedInv'
  BY <1>5 DEF NotInDcm, AcceptedInv, Accepted, Goto
<1>6. ASSUME NEW p \in Procs, FoundInCopy(p) PROVE AcceptedInv'
  BY <1>6 DEF FoundInCopy, TypeOK, AcceptedInv, Lines, Accepted, Accepts, Goto
<1>7. ASSUME NEW p \in Procs, Export(p) PROVE AcceptedInv'
  BY <1>7 DEF Export, AcceptedInv, Accepted, Goto
<1>8. ASSUME NEW p \in Procs, ExportFails(p) PROVE AcceptedInv'
  BY <1>8 DEF ExportFails, TypeOK, AcceptedInv, Accepted, Goto
<1>9. ASSUME NEW p \in Procs, DeleteEntry(p) PROVE AcceptedInv'
  BY <1>9 DEF DeleteEntry, AcceptedInv, Accepted, Goto
<1>10. ASSUME NEW p \in Procs, DeleteFails(p) PROVE AcceptedInv'
  BY <1>10 DEF DeleteFails, AcceptedInv, Accepted, Goto
<1>11. ASSUME NEW p \in Procs, AppendEntry(p) PROVE AcceptedInv'
  BY <1>11 DEF AppendEntry, AcceptedInv, Accepted, Goto
<1>12. ASSUME NEW p \in Procs, AppendFails(p) PROVE AcceptedInv'
  BY <1>12 DEF AppendFails, AcceptedInv, Accepted, Goto
<1>13. ASSUME NEW p \in Procs, Apply(p) PROVE AcceptedInv'
  BY <1>13 DEF Apply, AcceptedInv, Accepted, Goto
<1>14. ASSUME NEW p \in Procs, ApplyFails(p) PROVE AcceptedInv'
  BY <1>14 DEF ApplyFails, AcceptedInv, Accepted, Goto
<1>15. ASSUME NEW p \in Procs, Unlink(p) PROVE AcceptedInv'
  BY <1>15 DEF Unlink, AcceptedInv, Accepted, Goto
<1>16. ASSUME NEW p \in Procs, Die(p) PROVE AcceptedInv'
  BY <1>16 DEF Die, AcceptedInv, Accepted, Goto
<1>17. ASSUME NEW v \in {NoLine} \cup Lines, Publish(v) PROVE AcceptedInv'
  BY <1>17 DEF Publish, AcceptedInv
<1>18. ASSUME NEW lines \in SUBSET Entries, Edit(lines) PROVE AcceptedInv'
  BY <1>18 DEF Edit, AcceptedInv
<1>19. CASE Reboot
  BY <1>19 DEF Reboot, AcceptedInv, Accepted
<1>20. CASE UNCHANGED vars
  BY <1>20 DEF vars, AcceptedInv
<1>21. ASSUME NEW p \in Procs, CopyUnopened(p) PROVE AcceptedInv'
  BY <1>21 DEF CopyUnopened, TypeOK, AcceptedInv, Accepted, Accepts, Goto
<1>22. ASSUME NEW p \in Procs, SaveFails(p) PROVE AcceptedInv'
  BY <1>22 DEF SaveFails, AcceptedInv, Accepted, Accepts, Goto
<1> QED
  BY <1>1, <1>2, <1>3, <1>4, <1>5, <1>6, <1>7, <1>8, <1>9, <1>10,
     <1>11, <1>12, <1>13, <1>14, <1>15, <1>16, <1>17, <1>18, <1>19, <1>20, <1>21, <1>22
     DEF Next, GetCronFromDCMSettings, ManageCronJob

\* What a run that is alone left in the temporary file is still there at its
\* next step.
LEMMA CleanStep ==
  ASSUME TypeOK, AcceptedInv, CleanInv, [Next]_vars
  PROVE  CleanInv'
<1>1. ASSUME NEW p \in Procs, Start(p) PROVE CleanInv'
  BY <1>1 DEF Start, TypeOK, CleanInv, Goto, Running
<1>2. ASSUME NEW p \in Procs, StartBeside(p) PROVE CleanInv'
  BY <1>2 DEF StartBeside, CleanInv, Goto, Disturb, Running
<1>3. ASSUME NEW p \in Procs, FoundInDcm(p) PROVE CleanInv'
  BY <1>3 DEF FoundInDcm, CleanInv, Goto
<1>4. ASSUME NEW p \in Procs, SaveCopy(p) PROVE CleanInv'
  BY <1>4 DEF SaveCopy, CleanInv, Goto
<1>5. ASSUME NEW p \in Procs, NotInDcm(p) PROVE CleanInv'
  BY <1>5 DEF NotInDcm, CleanInv, Goto
<1>6. ASSUME NEW p \in Procs, FoundInCopy(p) PROVE CleanInv'
  BY <1>6 DEF FoundInCopy, CleanInv, Goto
<1>7. ASSUME NEW p \in Procs, Export(p) PROVE CleanInv'
  BY <1>7 DEF Export, CleanInv, Goto
<1>8. ASSUME NEW p \in Procs, ExportFails(p) PROVE CleanInv'
  BY <1>8 DEF ExportFails, TypeOK, CleanInv, Goto, Disturb
<1>9. ASSUME NEW p \in Procs, DeleteEntry(p) PROVE CleanInv'
  BY <1>9 DEF DeleteEntry, CleanInv, Goto
<1>10. ASSUME NEW p \in Procs, DeleteFails(p) PROVE CleanInv'
  BY <1>10 DEF DeleteFails, CleanInv, Goto, Disturb
<1>11. ASSUME NEW p \in Procs, AppendEntry(p) PROVE CleanInv'
  BY <1>11, AppendEntryFile, EmptyTab DEF AppendEntry, TypeOK, CleanInv, Goto
<1>12. ASSUME NEW p \in Procs, AppendFails(p) PROVE CleanInv'
  BY <1>12 DEF AppendFails, CleanInv, Goto, Disturb
<1>13. ASSUME NEW p \in Procs, Apply(p) PROVE CleanInv'
  BY <1>13 DEF Apply, CleanInv, Goto
<1>14. ASSUME NEW p \in Procs, ApplyFails(p) PROVE CleanInv'
  BY <1>14 DEF ApplyFails, CleanInv, Goto, Disturb
<1>15. ASSUME NEW p \in Procs, Unlink(p) PROVE CleanInv'
  BY <1>15 DEF Unlink, CleanInv, Goto
<1>16. ASSUME NEW p \in Procs, Die(p) PROVE CleanInv'
  BY <1>16 DEF Die, CleanInv, Goto
<1>17. ASSUME NEW v \in {NoLine} \cup Lines, Publish(v) PROVE CleanInv'
  BY <1>17 DEF Publish, CleanInv
<1>18. ASSUME NEW lines \in SUBSET Entries, Edit(lines) PROVE CleanInv'
  BY <1>18, EditCrontab DEF Edit, CleanInv, Disturb
<1>19. CASE Reboot
  BY <1>19 DEF Reboot, TypeOK, CleanInv
<1>20. CASE UNCHANGED vars
  BY <1>20 DEF vars, CleanInv
<1>21. ASSUME NEW p \in Procs, CopyUnopened(p) PROVE CleanInv'
  BY <1>21 DEF CopyUnopened, CleanInv, Goto
<1>22. ASSUME NEW p \in Procs, SaveFails(p) PROVE CleanInv'
  BY <1>22 DEF SaveFails, CleanInv, Goto
<1> QED
  BY <1>1, <1>2, <1>3, <1>4, <1>5, <1>6, <1>7, <1>8, <1>9, <1>10,
     <1>11, <1>12, <1>13, <1>14, <1>15, <1>16, <1>17, <1>18, <1>19, <1>20, <1>21, <1>22
     DEF Next, GetCronFromDCMSettings, ManageCronJob

\* Two runs at a time are noticed.
LEMMA OneRunsStep ==
  ASSUME TypeOK, ~disturbed => OneRuns, [Next]_vars
  PROVE  (~disturbed => OneRuns)'
<1>1. ASSUME NEW p \in Procs, Start(p) PROVE (~disturbed => OneRuns)'
  BY <1>1 DEF Start, OneRuns, Goto, Running
<1>2. ASSUME NEW p \in Procs, StartBeside(p) PROVE (~disturbed => OneRuns)'
  BY <1>2 DEF StartBeside, Disturb
<1>3. ASSUME NEW p \in Procs, FoundInDcm(p) PROVE (~disturbed => OneRuns)'
  BY <1>3 DEF FoundInDcm, OneRuns, Goto, Running
<1>4. ASSUME NEW p \in Procs, SaveCopy(p) PROVE (~disturbed => OneRuns)'
  BY <1>4 DEF SaveCopy, OneRuns, Goto, Running
<1>5. ASSUME NEW p \in Procs, NotInDcm(p) PROVE (~disturbed => OneRuns)'
  BY <1>5 DEF NotInDcm, OneRuns, Goto, Running
<1>6. ASSUME NEW p \in Procs, FoundInCopy(p) PROVE (~disturbed => OneRuns)'
  BY <1>6 DEF FoundInCopy, OneRuns, Goto, Running
<1>7. ASSUME NEW p \in Procs, Export(p) PROVE (~disturbed => OneRuns)'
  BY <1>7 DEF Export, OneRuns, Goto, Running
<1>8. ASSUME NEW p \in Procs, ExportFails(p) PROVE (~disturbed => OneRuns)'
  BY <1>8 DEF ExportFails, Disturb
<1>9. ASSUME NEW p \in Procs, DeleteEntry(p) PROVE (~disturbed => OneRuns)'
  BY <1>9 DEF DeleteEntry, OneRuns, Goto, Running
<1>10. ASSUME NEW p \in Procs, DeleteFails(p) PROVE (~disturbed => OneRuns)'
  BY <1>10 DEF DeleteFails, Disturb
<1>11. ASSUME NEW p \in Procs, AppendEntry(p) PROVE (~disturbed => OneRuns)'
  BY <1>11 DEF AppendEntry, OneRuns, Goto, Running
<1>12. ASSUME NEW p \in Procs, AppendFails(p) PROVE (~disturbed => OneRuns)'
  BY <1>12 DEF AppendFails, Disturb
<1>13. ASSUME NEW p \in Procs, Apply(p) PROVE (~disturbed => OneRuns)'
  BY <1>13 DEF Apply, OneRuns, Goto, Running
<1>14. ASSUME NEW p \in Procs, ApplyFails(p) PROVE (~disturbed => OneRuns)'
  BY <1>14 DEF ApplyFails, Disturb
<1>15. ASSUME NEW p \in Procs, Unlink(p) PROVE (~disturbed => OneRuns)'
  BY <1>15 DEF Unlink, OneRuns, Goto, Running
<1>16. ASSUME NEW p \in Procs, Die(p) PROVE (~disturbed => OneRuns)'
  BY <1>16 DEF Die, OneRuns, Goto, Running
<1>17. ASSUME NEW v \in {NoLine} \cup Lines, Publish(v) PROVE (~disturbed => OneRuns)'
  BY <1>17 DEF Publish, OneRuns, Running
<1>18. ASSUME NEW lines \in SUBSET Entries, Edit(lines) PROVE (~disturbed => OneRuns)'
  BY <1>18 DEF Edit, OneRuns, Disturb, Running
<1>19. CASE Reboot
  BY <1>19 DEF Reboot, OneRuns, Running
<1>20. CASE UNCHANGED vars
  BY <1>20 DEF vars, OneRuns, Running
<1>21. ASSUME NEW p \in Procs, CopyUnopened(p) PROVE (~disturbed => OneRuns)'
  BY <1>21 DEF CopyUnopened, OneRuns, Goto, Running
<1>22. ASSUME NEW p \in Procs, SaveFails(p) PROVE (~disturbed => OneRuns)'
  BY <1>22 DEF SaveFails, OneRuns, Goto, Running
<1> QED
  BY <1>1, <1>2, <1>3, <1>4, <1>5, <1>6, <1>7, <1>8, <1>9, <1>10,
     <1>11, <1>12, <1>13, <1>14, <1>15, <1>16, <1>17, <1>18, <1>19, <1>20, <1>21, <1>22
     DEF Next, GetCronFromDCMSettings, ManageCronJob

\* No undisturbed run works with, or saves, an older schedule than the last
\* one read.
LEMMA LatestStep ==
  ASSUME TypeOK, AcceptedInv, ~disturbed => OneRuns /\ LatestInv, [Next]_vars
  PROVE  (~disturbed => LatestInv)'
<1>1. ASSUME NEW p \in Procs, Start(p) PROVE (~disturbed => LatestInv)'
  BY <1>1 DEF Start, LatestInv, Accepted, Goto
<1>2. ASSUME NEW p \in Procs, StartBeside(p) PROVE (~disturbed => LatestInv)'
  BY <1>2 DEF StartBeside, Disturb
<1>3. ASSUME NEW p \in Procs, FoundInDcm(p) PROVE (~disturbed => LatestInv)'
  BY <1>3, ScheduleAssumption DEF FoundInDcm, TypeOK, OneRuns, LatestInv, Accepted, Goto, Running, Lines
<1>4. ASSUME NEW p \in Procs, SaveCopy(p) PROVE (~disturbed => LatestInv)'
  BY <1>4 DEF SaveCopy, LatestInv, Accepted, Goto
<1>5. ASSUME NEW p \in Procs, NotInDcm(p) PROVE (~disturbed => LatestInv)'
  BY <1>5 DEF NotInDcm, LatestInv, Accepted, Goto
<1>6. ASSUME NEW p \in Procs, FoundInCopy(p) PROVE (~disturbed => LatestInv)'
  BY <1>6 DEF FoundInCopy, TypeOK, LatestInv, Accepted, Accepts, Goto, Lines
<1>7. ASSUME NEW p \in Procs, Export(p) PROVE (~disturbed => LatestInv)'
  BY <1>7 DEF Export, LatestInv, Accepted, Goto
<1>8. ASSUME NEW p \in Procs, ExportFails(p) PROVE (~disturbed => LatestInv)'
  BY <1>8 DEF ExportFails, Disturb
<1>9. ASSUME NEW p \in Procs, DeleteEntry(p) PROVE (~disturbed => LatestInv)'
  BY <1>9 DEF DeleteEntry, LatestInv, Accepted, Goto
<1>10. ASSUME NEW p \in Procs, DeleteFails(p) PROVE (~disturbed => LatestInv)'
  BY <1>10 DEF DeleteFails, Disturb
<1>11. ASSUME NEW p \in Procs, AppendEntry(p) PROVE (~disturbed => LatestInv)'
  BY <1>11 DEF AppendEntry, LatestInv, Accepted, Goto
<1>12. ASSUME NEW p \in Procs, AppendFails(p) PROVE (~disturbed => LatestInv)'
  BY <1>12 DEF AppendFails, Disturb
<1>13. ASSUME NEW p \in Procs, Apply(p) PROVE (~disturbed => LatestInv)'
  BY <1>13 DEF Apply, LatestInv, Accepted, Goto
<1>14. ASSUME NEW p \in Procs, ApplyFails(p) PROVE (~disturbed => LatestInv)'
  BY <1>14 DEF ApplyFails, Disturb
<1>15. ASSUME NEW p \in Procs, Unlink(p) PROVE (~disturbed => LatestInv)'
  BY <1>15 DEF Unlink, LatestInv, Accepted, Goto
<1>16. ASSUME NEW p \in Procs, Die(p) PROVE (~disturbed => LatestInv)'
  BY <1>16 DEF Die, LatestInv, Accepted, Goto
<1>17. ASSUME NEW v \in {NoLine} \cup Lines, Publish(v) PROVE (~disturbed => LatestInv)'
  BY <1>17 DEF Publish, LatestInv
<1>18. ASSUME NEW lines \in SUBSET Entries, Edit(lines) PROVE (~disturbed => LatestInv)'
  BY <1>18 DEF Edit, LatestInv, Disturb
<1>19. CASE Reboot
  BY <1>19 DEF Reboot, LatestInv, Accepted
<1>20. CASE UNCHANGED vars
  BY <1>20 DEF vars, LatestInv
<1>21. ASSUME NEW p \in Procs, CopyUnopened(p) PROVE (~disturbed => LatestInv)'
  BY <1>21 DEF CopyUnopened, TypeOK, OneRuns, LatestInv, Accepted, Accepts, Goto, Running, Lines
<1>22. ASSUME NEW p \in Procs, SaveFails(p) PROVE (~disturbed => LatestInv)'
  BY <1>22 DEF SaveFails, TypeOK, OneRuns, LatestInv, Accepted, Accepts, Goto, Running, Lines
<1> QED
  BY <1>1, <1>2, <1>3, <1>4, <1>5, <1>6, <1>7, <1>8, <1>9, <1>10,
     <1>11, <1>12, <1>13, <1>14, <1>15, <1>16, <1>17, <1>18, <1>19, <1>20, <1>21, <1>22
     DEF Next, GetCronFromDCMSettings, ManageCronJob

\* The temporary file of an undisturbed run has the lines of the other
\* services, and so has the crontab it becomes.
LEMMA OthersStep ==
  ASSUME TypeOK, AcceptedInv, ~disturbed => OneRuns /\ ExportInv, OthersKept, [Next]_vars
  PROVE  ((~disturbed => ExportInv) /\ OthersKept)'
<1>1. ASSUME NEW p \in Procs, Start(p) PROVE ((~disturbed => ExportInv) /\ OthersKept)'
  BY <1>1 DEF Start, ExportInv, OthersKept, Goto, Replacing
<1>2. ASSUME NEW p \in Procs, StartBeside(p) PROVE ((~disturbed => ExportInv) /\ OthersKept)'
  BY <1>2 DEF StartBeside, OthersKept, Disturb
<1>3. ASSUME NEW p \in Procs, FoundInDcm(p) PROVE ((~disturbed => ExportInv) /\ OthersKept)'
  BY <1>3 DEF FoundInDcm, ExportInv, OthersKept, Goto, Replacing
<1>4. ASSUME NEW p \in Procs, SaveCopy(p) PROVE ((~disturbed => ExportInv) /\ OthersKept)'
  BY <1>4 DEF SaveCopy, ExportInv, OthersKept, Goto, Replacing
<1>5. ASSUME NEW p \in Procs, NotInDcm(p) PROVE ((~disturbed => ExportInv) /\ OthersKept)'
  BY <1>5 DEF NotInDcm, ExportInv, OthersKept, Goto, Replacing
<1>6. ASSUME NEW p \in Procs, FoundInCopy(p) PROVE ((~disturbed => ExportInv) /\ OthersKept)'
  BY <1>6 DEF FoundInCopy, ExportInv, OthersKept, Goto, Replacing
<1>7. ASSUME NEW p \in Procs, Export(p) PROVE ((~disturbed => ExportInv) /\ OthersKept)'
  BY <1>7, EmptyTab DEF Export, ExportInv, OthersKept
<1>8. ASSUME NEW p \in Procs, ExportFails(p) PROVE ((~disturbed => ExportInv) /\ OthersKept)'
  BY <1>8 DEF ExportFails, OthersKept, Disturb
<1>9. ASSUME NEW p \in Procs, DeleteEntry(p) PROVE ((~disturbed => ExportInv) /\ OthersKept)'
  BY <1>9, EmptyTab, DeletedTab DEF DeleteEntry, TypeOK, ExportInv, OthersKept, Replacing
<1>10. ASSUME NEW p \in Procs, DeleteFails(p) PROVE ((~disturbed => ExportInv) /\ OthersKept)'
  BY <1>10 DEF DeleteFails, OthersKept, Disturb
<1>11. ASSUME NEW p \in Procs, AppendEntry(p) PROVE ((~disturbed => ExportInv) /\ OthersKept)'
  BY <1>11, AppendEntryFile, EmptyTab DEF AppendEntry, ExportInv, OthersKept, Replacing
<1>12. ASSUME NEW p \in Procs, AppendFails(p) PROVE ((~disturbed => ExportInv) /\ OthersKept)'
  BY <1>12 DEF AppendFails, OthersKept, Disturb
<1>13. ASSUME NEW p \in Procs, Apply(p) PROVE ((~disturbed => ExportInv) /\ OthersKept)'
  BY <1>13 DEF Apply, ExportInv, OthersKept, Replacing
<1>14. ASSUME NEW p \in Procs, ApplyFails(p) PROVE ((~disturbed => ExportInv) /\ OthersKept)'
  BY <1>14 DEF ApplyFails, OthersKept, Disturb
<1>15. ASSUME NEW p \in Procs, Unlink(p) PROVE ((~disturbed => ExportInv) /\ OthersKept)'
  BY <1>15 DEF Unlink, OneRuns, ExportInv, OthersKept, Goto, Running, Replacing
<1>16. ASSUME NEW p \in Procs, Die(p) PROVE ((~disturbed => ExportInv) /\ OthersKept)'
  BY <1>16 DEF Die, ExportInv, OthersKept, Goto, Replacing
<1>17. ASSUME NEW v \in {NoLine} \cup Lines, Publish(v) PROVE ((~disturbed => ExportInv) /\ OthersKept)'
  BY <1>17 DEF Publish, ExportInv, OthersKept, Replacing
<1>18. ASSUME NEW lines \in SUBSET Entries, Edit(lines) PROVE ((~disturbed => ExportInv) /\ OthersKept)'
  BY <1>18, EditCrontab DEF Edit, ExportInv, OthersKept, Disturb, Replacing
<1>19. CASE Reboot
  BY <1>19 DEF Reboot, ExportInv, OthersKept, Replacing
<1>20. CASE UNCHANGED vars
  BY <1>20 DEF vars, ExportInv, OthersKept, Replacing
<1>21. ASSUME NEW p \in Procs, CopyUnopened(p) PROVE ((~disturbed => ExportInv) /\ OthersKept)'
  BY <1>21 DEF CopyUnopened, ExportInv, OthersKept, Goto, Replacing
<1>22. ASSUME NEW p \in Procs, SaveFails(p) PROVE ((~disturbed => ExportInv) /\ OthersKept)'
  BY <1>22 DEF SaveFails, ExportInv, OthersKept, Goto, Replacing
<1> QED
  BY <1>1, <1>2, <1>3, <1>4, <1>5, <1>6, <1>7, <1>8, <1>9, <1>10,
     <1>11, <1>12, <1>13, <1>14, <1>15, <1>16, <1>17, <1>18, <1>19, <1>20, <1>21, <1>22
     DEF Next, GetCronFromDCMSettings, ManageCronJob

(***************************************************************************)
(* Three minutes, for every plain schedule and every time of the week.     *)
(***************************************************************************)

At(d, h, m) == 1440 * d + 60 * h + m

MinuteOf(t) == t % 60
HourOf(t) == (t \div 60) % 24
DayOf(t) == t \div 1440

\* A time of the week is a day, an hour and a minute.
LEMMA ClockTime ==
  ASSUME NEW t \in Week
  PROVE  \E d \in 0..6, h \in 0..23, m \in 0..59 : t = At(d, h, m)
<1> DEFINE q == t \div 60
<1>1. t \in 0..10079
  BY DEF Week
<1>2. q \in 0..167 /\ t % 60 \in 0..59 /\ t = 60 * q + (t % 60)
  <2>1. q \in 0..167
    BY DEF Week
  <2>2. t % 60 \in 0..59
    BY DEF Week
  <2>3. t = 60 * q + (t % 60)
    BY DEF Week
  <2> QED
    BY <2>1, <2>2, <2>3
<1>3. q \div 24 \in 0..6 /\ q % 24 \in 0..23 /\ q = 24 * (q \div 24) + (q % 24)
  BY <1>2
<1>4. t = At(q \div 24, q % 24, t % 60)
  BY <1>1, <1>2, <1>3 DEF At
<1> QED
  BY <1>2, <1>3, <1>4

\* ... and Fires finds them again.
LEMMA ClockParts ==
  ASSUME NEW d \in 0..6, NEW h \in 0..23, NEW m \in 0..59
  PROVE  /\ At(d, h, m) \in Week
         /\ MinuteOf(At(d, h, m)) = m
         /\ HourOf(At(d, h, m)) = h
         /\ DayOf(At(d, h, m)) = d
<1>1. d \in Int /\ h \in Int /\ m \in Int /\ At(d, h, m) = 60 * (24 * d + h) + m
  BY DEF At
<1>2. At(d, h, m) \div 60 = 24 * d + h
  BY <1>1
<1>3. (24 * d + h) % 24 = h
  OBVIOUS
<1>4. At(d, h, m) \div 1440 = d
  BY DEF At
<1>5. At(d, h, m) \in Week
  <2> DEFINE top == 7 * 1440 - 1
  <2>1. top \in Int /\ At(d, h, m) \in Int /\ 0 <= At(d, h, m) /\ At(d, h, m) <= top
    BY <1>1
  <2>2. Week = 0..top
    BY DEF Week
  <2> HIDE DEF top
  <2>3. At(d, h, m) \in 0..top
    BY <2>1
  <2> QED
    BY <2>2, <2>3
<1>6. MinuteOf(At(d, h, m)) = m
  BY SMTT(60), <1>1 DEF MinuteOf
<1>7. HourOf(At(d, h, m)) = h
  BY <1>2, <1>3 DEF HourOf
<1>8. DayOf(At(d, h, m)) = d
  BY <1>4 DEF DayOf
<1> QED
  BY <1>5, <1>6, <1>7, <1>8

\* Three minutes earlier, in the hour, the day or the week before.
LEMMA EarlierParts ==
  ASSUME NEW d \in 0..6, NEW h \in 0..23, NEW m \in 0..59
  PROVE  Earlier(At(d, h, m)) =
           IF m >= 3 THEN At(d, h, m - 3)
           ELSE IF h > 0 THEN At(d, h - 1, m + 57)
           ELSE At(IF d > 0 THEN d - 1 ELSE 6, 23, m + 57)
  BY DEF Earlier, At

\* Fires, for a day, an hour and a minute.
FiresAt(s, d, h, m) ==
  /\ s.minute.any \/ s.minute.num = m
  /\ s.hour.any \/ s.hour.num = h
  /\ s.day.any \/ s.day.num = d

\* MovedBack, without the arithmetic of the clock.
LEMMA MovedBackAt ==
  ASSUME NEW a, NEW s
  PROVE  MovedBack(a, s) <=>
           \A d \in 0..6, h \in 0..23, m \in 0..59 :
             FiresAt(s, d, h, m) <=>
               IF m >= 3 THEN FiresAt(a, d, h, m - 3)
               ELSE IF h > 0 THEN FiresAt(a, d, h - 1, m + 57)
               ELSE FiresAt(a, IF d > 0 THEN d - 1 ELSE 6, 23, m + 57)
<1>1. ASSUME NEW x, NEW d \in 0..6, NEW h \in 0..23, NEW m \in 0..59
      PROVE  Fires(x, At(d, h, m)) <=> FiresAt(x, d, h, m)
  <2>1. Fires(x, At(d, h, m)) <=>
          /\ x.minute.any \/ x.minute.num = MinuteOf(At(d, h, m))
          /\ x.hour.any \/ x.hour.num = HourOf(At(d, h, m))
          /\ x.day.any \/ x.day.num = DayOf(At(d, h, m))
    BY DEF Fires, MinuteOf, HourOf, DayOf
  <2>2. /\ MinuteOf(At(d, h, m)) = m
        /\ HourOf(At(d, h, m)) = h
        /\ DayOf(At(d, h, m)) = d
    BY ClockParts
  <2> QED
    BY <2>1, <2>2, Zenon DEF FiresAt
<1>2. ASSUME NEW d \in 0..6, NEW h \in 0..23, NEW m \in 0..59
      PROVE  Fires(a, Earlier(At(d, h, m))) <=>
               IF m >= 3 THEN FiresAt(a, d, h, m - 3)
               ELSE IF h > 0 THEN FiresAt(a, d, h - 1, m + 57)
               ELSE FiresAt(a, IF d > 0 THEN d - 1 ELSE 6, 23, m + 57)
  <2>1. CASE m >= 3
    <3>1. m - 3 \in 0..59
      BY <2>1
    <3> QED
      BY <2>1, <3>1, <1>1, EarlierParts
  <2>2. CASE m < 3 /\ h > 0
    <3>1. m + 57 \in 0..59 /\ h - 1 \in 0..23 /\ ~(m >= 3)
      BY <2>2
    <3> QED
      BY ZenonT(60), <2>2, <3>1, <1>1, EarlierParts
  <2>3. CASE m < 3 /\ h = 0
    <3> DEFINE e == IF d > 0 THEN d - 1 ELSE 6
    <3>1. m + 57 \in 0..59 /\ e \in 0..6 /\ 23 \in 0..23 /\ ~(m >= 3) /\ ~(h > 0)
      BY <2>3
    <3>2. Earlier(At(d, h, m)) = At(e, 23, m + 57)
      BY <3>1, EarlierParts
    <3> HIDE DEF e
    <3>3. Fires(a, At(e, 23, m + 57)) <=> FiresAt(a, e, 23, m + 57)
      BY <3>1, <1>1
    <3> QED
      BY <3>1, <3>2, <3>3 DEF e
  <2> QED
    BY <2>1, <2>2, <2>3
<1>3. \A d \in 0..6, h \in 0..23, m \in 0..59 : At(d, h, m) \in Week
  BY ClockParts
<1>4. MovedBack(a, s) <=>
        \A d \in 0..6, h \in 0..23, m \in 0..59 :
          Fires(s, At(d, h, m)) <=> Fires(a, Earlier(At(d, h, m)))
  <2>1. ASSUME MovedBack(a, s), NEW d \in 0..6, NEW h \in 0..23, NEW m \in 0..59
        PROVE  Fires(s, At(d, h, m)) <=> Fires(a, Earlier(At(d, h, m)))
    BY <2>1, <1>3, Zenon DEF MovedBack
  <2>2. ASSUME \A d \in 0..6, h \in 0..23, m \in 0..59 :
                 Fires(s, At(d, h, m)) <=> Fires(a, Earlier(At(d, h, m))),
               NEW t \in Week
        PROVE  Fires(s, t) <=> Fires(a, Earlier(t))
    <3>1. PICK d \in 0..6, h \in 0..23, m \in 0..59 : t = At(d, h, m)
      BY ClockTime
    <3> QED
      BY <2>2, <3>1, Zenon
  <2> QED
    BY <2>1, <2>2, Zenon DEF MovedBack
<1> QED
  BY ZenonT(60), <1>1, <1>2, <1>4

\* What stoi finds in a plain schedule.
LEMMA PlainValues ==
  ASSUME NEW s \in Schedules, Plain(s)
  PROVE  /\ Value(s, "minute") = IF s.minute.any THEN 0 ELSE s.minute.num
         /\ Value(s, "hour") = IF s.hour.any THEN 0 ELSE s.hour.num
         /\ Value(s, "day") = IF s.day.any THEN 0 ELSE s.day.num
         /\ s.minute.any \/ s.minute.num \in 0..59
         /\ s.hour.any \/ s.hour.num \in 0..23
         /\ s.day.any \/ s.day.num \in 0..6
         /\ s.minute.any \in BOOLEAN /\ s.hour.any \in BOOLEAN /\ s.day.any \in BOOLEAN
<1>1. s \in Schedule
  BY ScheduleAssumption
<1>2. ~Invalid(s)
  BY DEF Invalid, Plain
<1> QED
  BY <1>1, <1>2 DEF Value, Plain, Schedule, Field

\* The entry of a movable schedule fires three minutes before it ...
LEMMA MovableMoves ==
  ASSUME NEW s \in Schedules, Plain(s), Movable(s)
  PROVE  MovedBack(Adjusted(s), s)
<1> DEFINE a == Adjusted(s)
<1> SUFFICES ASSUME NEW d \in 0..6, NEW h \in 0..23, NEW m \in 0..59
             PROVE  FiresAt(s, d, h, m) <=>
                      IF m >= 3 THEN FiresAt(a, d, h, m - 3)
                      ELSE IF h > 0 THEN FiresAt(a, d, h - 1, m + 57)
                      ELSE FiresAt(a, IF d > 0 THEN d - 1 ELSE 6, 23, m + 57)
  BY MovedBackAt
<1>1. CASE s.minute.any
  BY <1>1, PlainValues DEF Movable, FiresAt, Adjusted
<1>2. CASE ~s.minute.any /\ s.minute.num >= 3
  <2>1. /\ a.minute = Number(s.minute.num - 3)
        /\ a.hour = IF s.hour.any THEN s.hour ELSE Number(s.hour.num)
        /\ a.day = IF s.day.any THEN s.day ELSE Number(s.day.num)
    BY <1>2, PlainValues DEF Adjusted, AdjustedMinute, AdjustedHour, Borrows
  <2> QED
    BY <1>2, <2>1, PlainValues DEF FiresAt, Number
<1>3. CASE ~s.minute.any /\ s.minute.num < 3
  <2>1. /\ a.minute = Number(s.minute.num + 57)
        /\ a.hour = IF s.hour.any THEN s.hour
                    ELSE Number(IF s.hour.num = 0 THEN 23 ELSE s.hour.num - 1)
        /\ a.day = IF s.day.any THEN s.day ELSE Number(s.day.num)
    BY <1>3, PlainValues DEF Adjusted, AdjustedMinute, AdjustedHour, Borrows
  <2>2. s.day.any \/ (~s.hour.any /\ s.hour.num > 0)
    BY <1>3, PlainValues DEF Movable, Borrows
  <2> QED
    BY <1>3, <2>1, <2>2, PlainValues DEF FiresAt, Number
<1> QED
  BY <1>1, <1>2, <1>3, PlainValues

\* ... and that of any other plain schedule does not, at some time of the week:
\* against the comment of manageCronJob, a "*" minute beside another
\* restriction, or the day before where it is needed, leaves the entry wrong.
THEOREM OthersDoNotMove ==
  ASSUME NEW s \in Schedules, Plain(s), ~Movable(s)
  PROVE  ~MovedBack(Adjusted(s), s)
<1> DEFINE a == Adjusted(s)
<1> SUFFICES \E d \in 0..6, h \in 0..23, m \in 0..59 :
               ~(FiresAt(s, d, h, m) <=>
                   IF m >= 3 THEN FiresAt(a, d, h, m - 3)
                   ELSE IF h > 0 THEN FiresAt(a, d, h - 1, m + 57)
                   ELSE FiresAt(a, IF d > 0 THEN d - 1 ELSE 6, 23, m + 57))
  BY MovedBackAt
<1>1. CASE s.minute.any /\ ~s.hour.any
  <2> DEFINE d == IF s.day.any THEN 0 ELSE s.day.num
             h == s.hour.num
  <2>1. d \in 0..6 /\ h \in 0..23 /\ FiresAt(s, d, h, 5)
    BY <1>1, PlainValues DEF FiresAt
  <2>2. a.hour = Number(IF h = 0 THEN 23 ELSE h - 1)
    BY <1>1, PlainValues DEF Adjusted, AdjustedHour, Borrows
  <2>3. ~FiresAt(a, d, h, 5 - 3)
    BY <2>1, <2>2 DEF FiresAt, Number
  <2> HIDE DEF a, d, h
  <2>4. 5 >= 3 /\ 5 \in 0..59
    OBVIOUS
  <2>5. FiresAt(s, d, h, 5) /\ ~(IF 5 >= 3 THEN FiresAt(a, d, h, 5 - 3)
                                ELSE IF h > 0 THEN FiresAt(a, d, h - 1, 5 + 57)
                                ELSE FiresAt(a, IF d > 0 THEN d - 1 ELSE 6, 23, 5 + 57))
    BY Zenon, <2>1, <2>3, <2>4
  <2> QED
    BY Zenon, <2>1, <2>4, <2>5
<1>2. CASE (s.minute.any \/ s.minute.num <= 2) /\ ~s.day.any /\ (s.hour.any \/ s.hour.num = 0)
  <2> DEFINE d == s.day.num
             m == IF s.minute.any THEN 0 ELSE s.minute.num
             e == IF d > 0 THEN d - 1 ELSE 6
  <2>1. d \in 0..6 /\ m \in 0..59 /\ m < 3 /\ FiresAt(s, d, 0, m)
    BY <1>2, PlainValues DEF FiresAt
  <2>2. a.day = Number(d)
    BY <1>2, PlainValues DEF Adjusted
  <2>3. ~FiresAt(a, e, 23, m + 57)
    BY <2>1, <2>2 DEF FiresAt, Number
  <2> HIDE DEF a, d, m
  <2>4. ~(m >= 3) /\ ~(0 > 0) /\ 0 \in 0..23
    BY <2>1
  <2>5. FiresAt(s, d, 0, m) /\ ~(IF m >= 3 THEN FiresAt(a, d, 0, m - 3)
                                ELSE IF 0 > 0 THEN FiresAt(a, d, 0 - 1, m + 57)
                                ELSE FiresAt(a, IF d > 0 THEN d - 1 ELSE 6, 23, m + 57))
    BY Zenon, <2>1, <2>3, <2>4
  <2> QED
    BY Zenon, <2>1, <2>4, <2>5
<1>3. \/ s.minute.any /\ ~s.hour.any
      \/ (s.minute.any \/ s.minute.num <= 2) /\ ~s.day.any /\ (s.hour.any \/ s.hour.num = 0)
  BY PlainValues DEF Movable, Borrows
<1> QED
  BY <1>1, <1>2, <1>3

(***************************************************************************)
(* The theorems.                                                           *)
(***************************************************************************)

\* The crontab, the files and the runs satisfy CronInv at all times.
THEOREM CronInvariant == Spec => []CronInv
<1>1. Init => CronInv
  <2> SUFFICES ASSUME Init PROVE CronInv
    OBVIOUS
  <2>1. TypeOK
    BY EmptyTab DEF Init, TypeOK, Steps, Lines
  <2>2. AcceptedInv /\ CleanInv /\ OneRuns /\ ExportInv
    BY DEF Init, AcceptedInv, Accepted, CleanInv, OneRuns, ExportInv, Running, Replacing
  <2>3. LatestInv
    BY ScheduleAssumption DEF Init, LatestInv, Accepted, Lines
  <2>4. OthersKept
    BY EmptyTab DEF Init, OthersKept
  <2> QED
    BY <2>1, <2>2, <2>3, <2>4 DEF CronInv
<1>2. CronInv /\ [Next]_vars => CronInv'
  <2> SUFFICES ASSUME CronInv, [Next]_vars PROVE CronInv'
    OBVIOUS
  <2>1. TypeOK /\ AcceptedInv /\ CleanInv /\ OthersKept
        /\ (~disturbed => OneRuns /\ ExportInv /\ LatestInv)
    BY DEF CronInv
  <2>2. TypeOK'
    BY <2>1, TypeStep
  <2>3. AcceptedInv'
    BY <2>1, AcceptedStep
  <2>4. CleanInv'
    BY <2>1, CleanStep
  <2>5. (~disturbed => OneRuns)'
    BY <2>1, OneRunsStep
  <2>6. (~disturbed => LatestInv)'
    BY <2>1, LatestStep
  <2>7. ((~disturbed => ExportInv) /\ OthersKept)'
    BY <2>1, OthersStep
  <2> QED
    BY <2>2, <2>3, <2>4, <2>5, <2>6, <2>7 DEF CronInv
<1> QED
  BY <1>1, <1>2, PTL DEF Spec

\* Every variable keeps its type: no number of an entry becomes negative
\* (manageCronJob).
THEOREM TypeCorrect == Spec => []TypeOK
<1>1. CronInv => TypeOK
  BY DEF CronInv
<1> QED
  BY <1>1, CronInvariant, PTL

\* A run that nobody disturbed leaves exactly its own line for rfcMgr in the
\* crontab, however many it found (manageCronJob).
THEOREM OneEntry == Spec => []EntryReplaced
<1>1. CronInv => EntryReplaced
  BY DEF CronInv, CleanInv, EntryReplaced
<1> QED
  BY <1>1, CronInvariant, PTL

\* manageCronJob, which replaces the whole crontab, keeps what the other
\* services have in it as long as nobody disturbs a run.
THEOREM NothingLost == Spec => []OthersKept
<1>1. CronInv => OthersKept
  BY DEF CronInv
<1> QED
  BY <1>1, CronInvariant, PTL

\* No undisturbed run schedules rfcMgr by an older schedule than the last one
\* that was read from DCM, or, when its copy could not be opened, the last one
\* that was saved (getCronFromDCMSettings).
THEOREM NeverOlder == Spec => []FollowsDcm
<1>1. CronInv => FollowsDcm
  BY DEF CronInv, AcceptedInv, LatestInv, FollowsDcm, Accepted
<1> QED
  BY <1>1, CronInvariant, PTL

\* For every movable schedule the entry fires exactly three minutes before it
\* (manageCronJob).
THEOREM MovableMovedBack == Spec => []ThreeMinutesEarlier
<1>1. ASSUME CronInv PROVE ThreeMinutesEarlier
  <2> SUFFICES ASSUME NEW p \in Procs, pc[p] = "unlink", Plain(cron[p]), Movable(cron[p])
               PROVE  MovesBack[cron[p]]
    BY DEF ThreeMinutesEarlier
  <2>1. cron[p] \in Schedules
    BY <1>1 DEF CronInv, AcceptedInv, Accepted
  <2>2. MovesBack[cron[p]] <=> MovedBack(Adjusted(cron[p]), cron[p])
    BY <2>1 DEF MovesBack
  <2> QED
    BY <2>1, <2>2, MovableMoves
<1> QED
  BY <1>1, CronInvariant, PTL
=============================================================================
