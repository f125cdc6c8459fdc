--------------------------- MODULE DriveFolderProofs ---------------------------
(***************************************************************************)
(* Proofs about how a scheduled ingestion finds its month                  *)
(* (DriveSchedules), and what the listing of the month's folder finds      *)
(* (DriveWalk).                                                            *)
(***************************************************************************)
EXTENDS DriveSchedules, DriveWalk, FiniteSetTheorems, SequenceTheorems, TLAPS

\* A root, or none: what a configuration holds for a kind.
Roots0 == Roots \cup {NoRoot}
Schedule(n) == [tenant : {n[1]}, kind : {n[2]}, root : Roots0, cron : Crons]
IsRegistry(r) ==
    /\ DOMAIN r \subseteq Tenants \X Kinds
    /\ \A n \in DOMAIN r : r[n] \in Schedule(n)

Message == [tenant : Tenants, kind : Kinds, root : Roots0, asked : Asked]
Run == [at : {"begun", "configured", "found"}, kind : Kinds, tenant : Tenants, root : Roots0,
        asked : Asked, month : Calendar, folder : Calendar \cup {Everything},
        since : Calendar, again : BOOLEAN]
Filing == [kind : Kinds, tenant : Tenants, asked : Asked, since : Calendar, until : Calendar,
           folder : Calendar \cup {Everything}, period : Calendar \cup {Anytime}]

ScheduleTypeOK ==
    /\ config \in [Tenants -> [Kinds -> Roots0]]
    /\ IsRegistry(registry) /\ readable \in BOOLEAN
    /\ script # NoScript => /\ script.name \in Tenants \X Kinds
                            /\ script.entry \in Schedule(script.name)
                            /\ IsRegistry(script.seen)
    /\ IsRegistry(beat)
    /\ today \in Calendar
    /\ folders \subseteq Roots \X Calendar
    /\ queue \in Seq(Message)
    /\ run \in Run \cup {NoRun}
    /\ filing \in Filing \cup {NoFiling}
    /\ astray \subseteq Tenants \X Kinds
    /\ changes \in 0..MaxChanges
\* A sync of one folder and a GSTR-2B run are never asked for a period.
OfToday(kind, asked) == kind \in {"drive", "gstr2b"} => asked = Anytime

\* The names of a tenant's folders show the year and the month.
Tells(t) == "year" \in Pattern[t] /\ {"n", "month_name"} \cap Pattern[t] # {}

RunHasItsMonth ==
    /\ \A i \in DOMAIN queue : OfToday(queue[i].kind, queue[i].asked)
    /\ run # NoRun =>
          /\ OfToday(run.kind, run.asked)
          /\ run.since <= today
          /\ IF run.asked # Anytime THEN run.month = run.asked
             ELSE run.since <= run.month /\ run.month <= today
          /\ run.at = "found" /\ run.kind # "drive" /\ Tells(run.tenant) => run.folder = run.month

SchedulesInv == ScheduleTypeOK /\ ConfigIsScheduled /\ FiledUnderItsMonth /\ RunHasItsMonth

\* The invariant holds initially.
LEMMA SchedulesInitEstablishes == ScheduleInit => SchedulesInv
<1> SUFFICES ASSUME ScheduleInit PROVE SchedulesInv
    OBVIOUS
<1> USE ScheduleConstants DEF ScheduleInit
<1>1. ScheduleTypeOK
    <2>1. IsRegistry(<<>>)
        BY DEF IsRegistry
    <2>2. config \in [Tenants -> [Kinds -> Roots0]]
        BY DEF Roots0
    <2> QED
        BY <2>1, <2>2 DEF ScheduleTypeOK
<1>2. ConfigIsScheduled
    BY DEF ConfigIsScheduled
<1>3. FiledUnderItsMonth
    BY DEF FiledUnderItsMonth, NoFiling
<1>4. RunHasItsMonth
    BY DEF RunHasItsMonth
<1> QED
    BY <1>1, <1>2, <1>3, <1>4 DEF SchedulesInv

\* Names that show the year and the month tell the months apart.
LEMMA NamesTellMonths ==
    ASSUME NEW t \in Tenants, Tells(t), NEW m \in Calendar, NEW n \in Calendar,
           FolderName(t, m) = FolderName(t, n)
    PROVE  m = n
<1>0. m \in Nat /\ n \in Nat /\ FiscalStart \in 1..12
    BY ScheduleConstants
<1>1. m \div 12 = n \div 12
    <2>1. FolderName(t, m)["year"] = m \div 12 /\ FolderName(t, n)["year"] = n \div 12
        BY DEF FolderName, Tells
    <2> QED
        BY <2>1
<1>2. m % 12 = n % 12
    <2>1. CASE "month_name" \in Pattern[t]
        <3>1. FolderName(t, m)["month_name"] = m % 12 /\ FolderName(t, n)["month_name"] = n % 12
            BY <2>1 DEF FolderName
        <3> QED
            BY <3>1
    <2>2. CASE "n" \in Pattern[t]
        <3>1. FolderName(t, m)["n"] = FiscalIndex(m) /\ FolderName(t, n)["n"] = FiscalIndex(n)
            BY <2>2 DEF FolderName
        <3>2. FiscalIndex(m) = FiscalIndex(n)
            BY <3>1
        <3>3. m % 12 \in 0..11 /\ n % 12 \in 0..11
            BY <1>0
        <3>4. ASSUME NEW a \in 0..11, NEW b \in 0..11,
                     (a + 1 - FiscalStart) % 12 = (b + 1 - FiscalStart) % 12
              PROVE  a = b
            BY <1>0, <3>4
        <3> QED
            BY <3>2, <3>3, <3>4, <1>0 DEF FiscalIndex
    <2> QED
        BY <2>1, <2>2 DEF Tells
<1> QED
    BY <1>0, <1>1, <1>2

\* Merging a registry over another leaves a registry.
LEMMA OverIsRegistry ==
    ASSUME NEW new, IsRegistry(new), NEW old, IsRegistry(old)
    PROVE  /\ IsRegistry(Over(new, old))
           /\ DOMAIN Over(new, old) = DOMAIN new \cup DOMAIN old
           /\ \A n \in DOMAIN new : Over(new, old)[n] = new[n]
           /\ \A n \in DOMAIN old \ DOMAIN new : Over(new, old)[n] = old[n]
BY DEF IsRegistry, Over

\* What a save adds for a tenant is a registry of that tenant's entries.
LEMMA EntriesAreRegistry ==
    ASSUME NEW t \in Tenants, NEW roots \in Configs, NEW cron \in Crons
    PROVE  /\ IsRegistry(Entries(t, roots, cron))
           /\ DOMAIN Entries(t, roots, cron) = {t} \X Wanted(roots)
           /\ roots \in [Kinds -> Roots0]
           /\ \A k \in Wanted(roots) : Entries(t, roots, cron)[<<t, k>>] = Entry(t, k, roots[k], cron)
<1>1. roots \in [Kinds -> Roots0]
    BY ScheduleConstants DEF Roots0, Roots
<1>2. DOMAIN Entries(t, roots, cron) = {t} \X Wanted(roots)
    BY DEF Entries, Name
<1>3. \A k \in Wanted(roots) : Entries(t, roots, cron)[<<t, k>>] = Entry(t, k, roots[k], cron)
    BY DEF Entries, Name
<1>4. ASSUME NEW n \in {t} \X Wanted(roots)
      PROVE  n \in Tenants \X Kinds /\ Entries(t, roots, cron)[n] \in Schedule(n)
    <2>1. n = <<t, n[2]>> /\ n[1] = t /\ n[2] \in Kinds /\ n[2] \in Wanted(roots)
        BY DEF Wanted
    <2>2. Entries(t, roots, cron)[n] = Entry(t, n[2], roots[n[2]], cron)
        BY <1>3, <2>1
    <2> QED
        BY <1>1, <2>1, <2>2 DEF Entry, Schedule, Roots0
<1> QED
    BY <1>1, <1>2, <1>3, <1>4 DEF IsRegistry

\* What a step that leaves the tasks and the date alone cannot disturb.
LEMMA TasksStay ==
    ASSUME SchedulesInv, UNCHANGED <<taskVars, today>>
    PROVE  FiledUnderItsMonth' /\ RunHasItsMonth'
BY DEF SchedulesInv, FiledUnderItsMonth, RunHasItsMonth, taskVars

\* What a step that leaves the file and the database alone cannot disturb.
LEMMA SchedulesStay ==
    ASSUME SchedulesInv, UNCHANGED <<config, registry, astray>>
    PROVE  ConfigIsScheduled'
BY DEF SchedulesInv, ConfigIsScheduled

\* A save schedules what it configures, and an unreadable file leads it astray.
LEMMA SaveConfigPreserves ==
    ASSUME SchedulesInv, NEW t \in Tenants, NEW roots \in Configs, NEW cron \in Crons,
           SaveConfig(t, roots, cron)
    PROVE  SchedulesInv'
<1> USE DEF SchedulesInv
<1> DEFINE new == Entries(t, roots, cron)
<1>1. /\ IsRegistry(new) /\ DOMAIN new = {t} \X Wanted(roots) /\ roots \in [Kinds -> Roots0]
      /\ \A k \in Wanted(roots) : new[<<t, k>>] = Entry(t, k, roots[k], cron)
    BY EntriesAreRegistry
<1>2. IsRegistry(registry) /\ config \in [Tenants -> [Kinds -> Roots0]]
      /\ astray \subseteq Tenants \X Kinds
    BY DEF ScheduleTypeOK
<1>3. /\ config' = [config EXCEPT ![t] = roots]
      /\ UNCHANGED <<readable, script, beat, today, folders, queue, run, filing>>
      /\ changes < MaxChanges /\ changes' = changes + 1
    BY DEF SaveConfig, Change, taskVars
<1> HIDE DEF new
<1>4. CASE readable
    <2>1. registry' = Over(new, registry) /\ astray' = astray \ ({t} \X Wanted(roots))
        BY <1>4 DEF SaveConfig, Merged, new
    <2>2. /\ IsRegistry(registry') /\ DOMAIN registry' = DOMAIN new \cup DOMAIN registry
          /\ \A n \in DOMAIN new : registry'[n] = new[n]
          /\ \A n \in DOMAIN registry \ DOMAIN new : registry'[n] = registry[n]
        <3>1. /\ IsRegistry(Over(new, registry))
              /\ DOMAIN Over(new, registry) = DOMAIN new \cup DOMAIN registry
              /\ \A n \in DOMAIN new : Over(new, registry)[n] = new[n]
              /\ \A n \in DOMAIN registry \ DOMAIN new : Over(new, registry)[n] = registry[n]
            <4>1. IsRegistry(new) /\ IsRegistry(registry)
                BY <1>1, <1>2
            <4> QED
                BY <4>1, OverIsRegistry
        <3> QED
            BY <2>1, <3>1
    <2>3. ScheduleTypeOK'
        BY <1>1, <1>2, <1>3, <2>1, <2>2, ScheduleConstants DEF ScheduleTypeOK
    <2>4. ASSUME NEW u \in Tenants, NEW k \in Kinds, config'[u][k] # NoRoot, <<u, k>> \notin astray'
          PROVE  <<u, k>> \in DOMAIN registry'
                 /\ (k = "drive" => registry'[<<u, k>>].root = config'[u][k])
        <3>1. CASE u = t
            <4>1. k \in Wanted(roots) /\ config'[u][k] = roots[k]
                BY <1>2, <1>3, <2>4, <3>1 DEF Wanted
            <4>2. <<u, k>> \in DOMAIN new /\ registry'[<<u, k>>] = Entry(t, k, roots[k], cron)
                BY <1>1, <2>2, <3>1, <4>1
            <4> QED
                BY <2>2, <4>1, <4>2 DEF Entry
        <3>2. CASE u # t
            <4>1. config'[u] = config[u] /\ <<u, k>> \notin astray /\ <<u, k>> \notin DOMAIN new
                BY <1>1, <1>2, <1>3, <2>1, <2>4, <3>2
            <4>2. <<u, k>> \in DOMAIN registry
                  /\ (k = "drive" => registry[<<u, k>>].root = config[u][k])
                BY <2>4, <4>1 DEF ConfigIsScheduled, Name
            <4> QED
                BY <2>2, <4>1, <4>2
        <3> QED
            BY <3>1, <3>2
    <2> QED
        BY <1>3, <2>3, <2>4, TasksStay DEF ConfigIsScheduled, Name, taskVars
<1>5. CASE ~readable
    <2>1. registry' = registry /\ astray' = astray \cup ({t} \X Wanted(roots))
        BY <1>5 DEF SaveConfig
    <2>2. ScheduleTypeOK'
        BY <1>1, <1>2, <1>3, <2>1, ScheduleConstants DEF ScheduleTypeOK, Wanted
    <2>3. ConfigIsScheduled'
        BY <1>1, <1>2, <1>3, <2>1 DEF ConfigIsScheduled, Wanted
    <2> QED
        BY <1>3, <2>2, <2>3, TasksStay DEF taskVars
<1> QED
    BY <1>4, <1>5

\* A save that is cut off: whatever lost its entry counts as astray.
LEMMA CutOffSavePreserves ==
    ASSUME SchedulesInv, NEW t \in Tenants, NEW roots \in Configs, CutOffSave(t, roots)
    PROVE  SchedulesInv'
<1> USE DEF SchedulesInv
<1>1. roots \in [Kinds -> Roots0]
    BY ScheduleConstants DEF Roots0, Roots
<1>2. IsRegistry(registry) /\ config \in [Tenants -> [Kinds -> Roots0]]
      /\ astray \subseteq Tenants \X Kinds
    BY DEF ScheduleTypeOK
<1>3. /\ config' = [config EXCEPT ![t] = roots]
      /\ UNCHANGED <<script, beat, today, folders, queue, run, filing>>
      /\ changes < MaxChanges /\ changes' = changes + 1
    BY DEF CutOffSave, Change, taskVars
<1>4. CASE astray' = astray \cup ({t} \X Wanted(roots)) /\ UNCHANGED <<registry, readable>>
    <2>1. ScheduleTypeOK'
        BY <1>1, <1>2, <1>3, <1>4, ScheduleConstants DEF ScheduleTypeOK, Wanted
    <2>2. ConfigIsScheduled'
        BY <1>1, <1>2, <1>3, <1>4 DEF ConfigIsScheduled, Wanted
    <2> QED
        BY <1>3, <2>1, <2>2, TasksStay DEF taskVars
<1>5. CASE /\ registry' = <<>> /\ readable' = FALSE
           /\ astray' = astray \cup ({t} \X Wanted(roots)) \cup Scheduled(registry)
    <2>1. Scheduled(registry) = DOMAIN registry
        <3>1. \A n \in DOMAIN registry : <<registry[n].tenant, registry[n].kind>> = n
            BY <1>2 DEF IsRegistry, Schedule
        <3> QED
            BY <3>1 DEF Scheduled
    <2>2. DOMAIN registry \subseteq Tenants \X Kinds /\ IsRegistry(registry')
        BY <1>2, <1>5 DEF IsRegistry
    <2>3. ScheduleTypeOK'
        <3>1. astray' \subseteq Tenants \X Kinds
            BY <1>2, <1>5, <2>1, <2>2 DEF Wanted
        <3>2. config' \in [Tenants -> [Kinds -> Roots0]] /\ changes' \in 0..MaxChanges
            BY <1>1, <1>2, <1>3, ScheduleConstants DEF ScheduleTypeOK
        <3> QED
            BY <1>3, <1>5, <2>2, <3>1, <3>2 DEF ScheduleTypeOK
    <2>4. ConfigIsScheduled'
        BY <1>1, <1>2, <1>3, <1>5, <2>1 DEF ConfigIsScheduled, Wanted, Name
    <2> QED
        BY <1>3, <2>3, <2>4, TasksStay DEF taskVars
<1> QED
    BY <1>4, <1>5 DEF CutOffSave

\* A script keeps the file as it read it.
LEMMA LoadRegistryPreserves ==
    ASSUME SchedulesInv, NEW t \in Tenants, NEW k \in Kinds, NEW root \in Roots0, NEW cron \in Crons,
           LoadRegistry(t, k, root, cron)
    PROVE  SchedulesInv'
<1> USE DEF SchedulesInv
<1>1. /\ script' = [name |-> <<t, k>>, entry |-> Entry(t, k, root, cron), seen |-> registry]
      /\ changes < MaxChanges /\ changes' = changes + 1
      /\ UNCHANGED <<config, registry, readable, beat, today, folders, queue, run, filing, astray>>
    BY DEF LoadRegistry, Change, Name, taskVars
<1>2. Entry(t, k, root, cron) \in Schedule(<<t, k>>)
    BY DEF Entry, Schedule, Roots0
<1>3. ScheduleTypeOK'
    BY <1>1, <1>2, ScheduleConstants DEF ScheduleTypeOK
<1> QED
    BY <1>1, <1>3, TasksStay, SchedulesStay DEF taskVars

\* A script writes the older file back: what that takes away counts as astray.
LEMMA WriteRegistryPreserves ==
    ASSUME SchedulesInv, WriteRegistry
    PROVE  SchedulesInv'
<1> USE DEF SchedulesInv
<1> DEFINE new == [n \in {script.name} |-> script.entry]
           written == Over(new, script.seen)
<1>1. /\ script # NoScript /\ registry' = written /\ readable' = TRUE /\ script' = NoScript
      /\ astray' = astray \cup
             {<<registry[n].tenant, registry[n].kind>> :
                 n \in {e \in DOMAIN registry : e \in DOMAIN written => written[e] # registry[e]}}
      /\ UNCHANGED <<config, beat, today, folders, queue, run, filing, changes>>
    BY DEF WriteRegistry, taskVars
<1>2. script.name \in Tenants \X Kinds /\ script.entry \in Schedule(script.name)
      /\ IsRegistry(script.seen)
    BY <1>1 DEF ScheduleTypeOK
<1>3. IsRegistry(new)
    BY <1>2 DEF IsRegistry
<1>4. IsRegistry(written)
    BY <1>2, <1>3, OverIsRegistry
<1> HIDE DEF written, new
<1>5. IsRegistry(registry) /\ astray \subseteq Tenants \X Kinds
    BY DEF ScheduleTypeOK
<1>6. \A n \in DOMAIN registry : <<registry[n].tenant, registry[n].kind>> = n /\ n \in Tenants \X Kinds
    BY <1>5 DEF IsRegistry, Schedule
<1>7. ScheduleTypeOK'
    BY <1>1, <1>4, <1>5, <1>6, ScheduleConstants DEF ScheduleTypeOK
<1>8. ConfigIsScheduled'
    <2> SUFFICES ASSUME NEW t \in Tenants, NEW k \in Kinds, config'[t][k] # NoRoot,
                        <<t, k>> \notin astray'
                 PROVE  <<t, k>> \in DOMAIN registry'
                        /\ (k = "drive" => registry'[<<t, k>>].root = config'[t][k])
        BY DEF ConfigIsScheduled, Name
    <2>1. /\ <<t, k>> \in DOMAIN registry
          /\ k = "drive" => registry[<<t, k>>].root = config[t][k]
        BY <1>1 DEF ConfigIsScheduled, Name
    <2>2. <<t, k>> \in DOMAIN written /\ written[<<t, k>>] = registry[<<t, k>>]
        BY <1>1, <1>6, <2>1
    <2> QED
        BY <1>1, <2>1, <2>2
<1> QED
    BY <1>1, <1>7, <1>8, TasksStay DEF taskVars

\* The beat's copy is a registry too.
LEMMA DeployBeatPreserves ==
    ASSUME SchedulesInv, DeployBeat
    PROVE  SchedulesInv'
<1> USE DEF SchedulesInv
<1>1. /\ beat' = IF readable /\ ~Refused(registry) THEN Loaded(registry) ELSE <<>>
      /\ UNCHANGED <<config, registry, readable, script, astray, today, folders,
                     queue, run, filing, changes>>
    BY DEF DeployBeat, fileVars, taskVars
<1>2. IsRegistry(Loaded(registry)) /\ IsRegistry(<<>>)
    BY DEF IsRegistry, Loaded, ScheduleTypeOK
<1>3. ScheduleTypeOK'
    BY <1>1, <1>2 DEF ScheduleTypeOK
<1> QED
    BY <1>1, <1>3, TasksStay, SchedulesStay DEF taskVars

\* A message asks for a period only where the task takes one.
LEMMA SendPreserves ==
    ASSUME SchedulesInv, NEW t \in Tenants, NEW k \in Kinds, NEW root \in Roots0, NEW period \in Asked,
           OfToday(k, period), SendToWorker(t, k, root, period)
    PROVE  SchedulesInv'
<1> USE DEF SchedulesInv
<1> DEFINE msg == [tenant |-> t, kind |-> k, root |-> root, asked |-> period]
<1>1. /\ queue' = Append(queue, msg) /\ changes < MaxChanges /\ changes' = changes + 1
      /\ UNCHANGED <<config, registry, readable, script, astray, beat, today, folders, run, filing>>
    BY DEF SendToWorker, Change, fileVars
<1>2. msg \in Message /\ queue \in Seq(Message)
    BY DEF Message, ScheduleTypeOK
<1>3. ScheduleTypeOK'
    BY <1>1, <1>2, ScheduleConstants DEF ScheduleTypeOK
<1>4. \A i \in DOMAIN queue' : OfToday(queue'[i].kind, queue'[i].asked)
    BY <1>1, <1>2 DEF RunHasItsMonth
<1>5. RunHasItsMonth' /\ FiledUnderItsMonth'
    BY <1>1, <1>4 DEF RunHasItsMonth, FiledUnderItsMonth
<1> QED
    BY <1>1, <1>3, <1>5, SchedulesStay

\* What a step of the run leaves alone, and what it then still has to show.
RunStep == RunOnly /\ UNCHANGED filing
LEMMA RunPreserves ==
    ASSUME SchedulesInv, RunStep, queue' \in Seq(Message), run' \in Run \cup {NoRun}, RunHasItsMonth'
    PROVE  SchedulesInv'
<1> USE DEF SchedulesInv, RunStep, RunOnly, fileVars
<1>1. ScheduleTypeOK'
    BY DEF ScheduleTypeOK
<1>2. FiledUnderItsMonth'
    BY DEF FiledUnderItsMonth
<1> QED
    BY <1>1, <1>2, SchedulesStay

\* The month a run takes as it begins.
LEMMA TargetIsAMonth ==
    ASSUME today \in Calendar, NEW asked \in Asked
    PROVE  /\ Target(asked) \in Calendar
           /\ asked # Anytime => Target(asked) = asked
           /\ asked = Anytime => Target(asked) = today
           /\ Calendar \subseteq Nat /\ Anytime \notin Calendar
BY ScheduleConstants DEF Target, Asked, Anytime

\* A run begins with the month that was asked for, or with today's.
LEMMA TakeMessagePreserves ==
    ASSUME SchedulesInv, TakeMessage
    PROVE  SchedulesInv'
<1> USE DEF SchedulesInv
<1> DEFINE msg == Head(queue)
           next == [at |-> IF msg.kind = "drive" THEN "found" ELSE "begun",
                    kind |-> msg.kind, tenant |-> msg.tenant, root |-> msg.root,
                    asked |-> msg.asked, month |-> Target(msg.asked),
                    folder |-> Everything, since |-> today, again |-> FALSE]
<1>1. /\ queue # <<>> /\ run' = next /\ queue' = Tail(queue) /\ RunStep
    BY DEF TakeMessage, RunStep
<1>2. queue \in Seq(Message) /\ today \in Calendar /\ today' = today
    BY <1>1 DEF ScheduleTypeOK, RunStep, RunOnly
<1>3. /\ msg \in Message /\ msg = queue[1] /\ 1 \in DOMAIN queue /\ queue' \in Seq(Message)
      /\ Len(queue') = Len(queue) - 1 /\ \A i \in 1..Len(queue') : queue'[i] = queue[i + 1]
    BY <1>1, <1>2, HeadTailProperties
<1>4. OfToday(msg.kind, msg.asked)
    BY <1>3 DEF RunHasItsMonth
<1> HIDE DEF msg
<1>5. /\ msg.asked \in Asked /\ Target(msg.asked) \in Calendar
      /\ msg.asked # Anytime => Target(msg.asked) = msg.asked
      /\ msg.asked = Anytime => Target(msg.asked) = today
      /\ Calendar \subseteq Nat
    <2>1. msg.asked \in Asked
        BY <1>3 DEF Message
    <2> QED
        BY <1>2, <2>1, TargetIsAMonth
<1>6. run' \in Run
    BY <1>1, <1>2, <1>3, <1>5 DEF Run, Message
<1>7. \A i \in DOMAIN queue' : OfToday(queue'[i].kind, queue'[i].asked)
    BY <1>2, <1>3 DEF RunHasItsMonth
<1>8. RunHasItsMonth'
    BY <1>1, <1>2, <1>4, <1>5, <1>7 DEF RunHasItsMonth
<1> QED
    BY <1>1, <1>3, <1>6, <1>8, RunPreserves

\* Its root is looked up, or it is skipped.
LEMMA ReadPathConfigPreserves ==
    ASSUME SchedulesInv, ReadPathConfig
    PROVE  SchedulesInv'
<1> USE DEF SchedulesInv
<1>1. /\ run.at = "begun" /\ queue' = queue /\ RunStep
      /\ \/ run' = NoRun
         \/ run' = [run EXCEPT !.at = "configured", !.root = config[run.tenant][run.kind]]
    BY DEF ReadPathConfig, RunStep
<1>2. run \in Run
    BY <1>1 DEF ScheduleTypeOK, NoRun
<1>3. queue' \in Seq(Message) /\ run' \in Run \cup {NoRun}
    <2>1. config[run.tenant][run.kind] \in Roots0 /\ queue \in Seq(Message)
        BY <1>2 DEF ScheduleTypeOK, Run
    <2> QED
        BY <1>1, <1>2, <2>1 DEF Run
<1>4. RunHasItsMonth'
    <2>1. \A i \in DOMAIN queue' : OfToday(queue'[i].kind, queue'[i].asked)
        BY <1>1 DEF RunHasItsMonth
    <2>2. run # NoRun /\ today' = today
        BY <1>1 DEF NoRun, RunStep, RunOnly
    <2> QED
        BY <1>1, <1>2, <2>1, <2>2 DEF RunHasItsMonth, Run
<1> QED
    BY <1>1, <1>3, <1>4, RunPreserves

\* The folder it finds is its month's, when the names tell the months apart.
LEMMA ResolveMonthFolderPreserves ==
    ASSUME SchedulesInv, ResolveMonthFolder
    PROVE  SchedulesInv'
<1> USE DEF SchedulesInv
<1> DEFINE month == IF run.kind = "gstr2b" THEN today ELSE run.month
<1>1. /\ run.at = "configured" /\ queue' = queue /\ RunStep /\ today' = today
      /\ \/ run' = NoRun
         \/ \E m \in Matching(month) :
                run' = [run EXCEPT !.at = "found", !.month = month, !.folder = m]
    BY DEF ResolveMonthFolder, RunStep, RunOnly
<1>2. run \in Run /\ run # NoRun /\ today \in Calendar
    <2>1. run.at = "configured" /\ run \in Run \cup {NoRun} /\ today \in Calendar
        BY <1>1 DEF ScheduleTypeOK
    <2> QED
        BY <2>1 DEF NoRun
<1>3. /\ OfToday(run.kind, run.asked) /\ run.since <= today
      /\ IF run.asked # Anytime THEN run.month = run.asked
         ELSE run.since <= run.month /\ run.month <= today
    BY <1>2 DEF RunHasItsMonth
<1>4. \A i \in DOMAIN queue' : OfToday(queue'[i].kind, queue'[i].asked)
    BY <1>1 DEF RunHasItsMonth
<1>5. month \in Calendar /\ Calendar \subseteq Nat
    BY <1>2, ScheduleConstants DEF Run
<1>6. CASE run' = NoRun
    <2>1. RunHasItsMonth'
        BY <1>4, <1>6 DEF RunHasItsMonth
    <2> QED
        BY <1>1, <1>6, <2>1, RunPreserves DEF ScheduleTypeOK
<1>7. ASSUME NEW m \in Matching(month),
             run' = [run EXCEPT !.at = "found", !.month = month, !.folder = m]
      PROVE  SchedulesInv'
    <2>1. m \in Calendar /\ FolderName(run.tenant, m) = FolderName(run.tenant, month)
        BY DEF Matching
    <2>2. run' \in Run
        BY <1>2, <1>5, <1>7, <2>1 DEF Run
    <2>3. /\ run'.kind = run.kind /\ run'.asked = run.asked /\ run'.since = run.since
          /\ run'.month = month /\ run'.folder = m /\ run'.tenant = run.tenant
        BY <1>2, <1>7 DEF Run
    <2>4. Tells(run.tenant) => m = month
        BY <1>2, <1>5, <2>1, NamesTellMonths DEF Run
    <2>5. IF run.asked # Anytime THEN month = run.asked ELSE run.since <= month /\ month <= today
        BY <1>2, <1>3, <1>5 DEF OfToday
    <2>6. RunHasItsMonth'
        BY <1>1, <1>3, <1>4, <2>3, <2>4, <2>5 DEF RunHasItsMonth
    <2> QED
        BY <1>1, <2>2, <2>6, RunPreserves DEF ScheduleTypeOK
<1> QED
    BY <1>1, <1>6, <1>7

\* A second attempt takes its month anew.
LEMMA RetryPreserves ==
    ASSUME SchedulesInv, RetryIngestion
    PROVE  SchedulesInv'
<1> USE DEF SchedulesInv
<1>1. /\ run.at # "idle" /\ queue' = queue /\ RunStep /\ today' = today
      /\ run' = [run EXCEPT !.at = IF run.kind = "drive" THEN "found" ELSE "begun",
                            !.month = Target(run.asked), !.folder = Everything, !.again = TRUE]
    BY DEF RetryIngestion, RunStep, RunOnly
<1>2. run \in Run /\ run # NoRun /\ today \in Calendar
    BY <1>1 DEF ScheduleTypeOK, NoRun
<1>3. /\ run.asked \in Asked /\ Target(run.asked) \in Calendar
      /\ run.asked # Anytime => Target(run.asked) = run.asked
      /\ run.asked = Anytime => Target(run.asked) = today
      /\ Calendar \subseteq Nat
    <2>1. run.asked \in Asked
        BY <1>2 DEF Run
    <2> QED
        BY <1>2, <2>1, TargetIsAMonth
<1>4. run' \in Run
    BY <1>1, <1>2, <1>3 DEF Run
<1>5. /\ run'.kind = run.kind /\ run'.asked = run.asked /\ run'.since = run.since
      /\ run'.month = Target(run.asked) /\ (run'.at = "found" => run'.kind = "drive")
    BY <1>1, <1>2 DEF Run
<1>6. RunHasItsMonth'
    BY <1>1, <1>2, <1>3, <1>5 DEF RunHasItsMonth
<1> QED
    BY <1>1, <1>4, <1>6, RunPreserves DEF ScheduleTypeOK

\* A run that is lost leaves nothing.
LEMMA LoseRunPreserves ==
    ASSUME SchedulesInv, LoseRun
    PROVE  SchedulesInv'
<1>1. run' = NoRun /\ queue' = queue /\ RunStep
    BY DEF LoseRun, RunStep
<1>2. RunHasItsMonth'
    BY <1>1 DEF SchedulesInv, RunHasItsMonth
<1> QED
    BY <1>1, <1>2, RunPreserves DEF SchedulesInv, ScheduleTypeOK

\* The review is filed under the month of the folder that was read.
LEMMA IngestPreserves ==
    ASSUME SchedulesInv, Ingest
    PROVE  SchedulesInv'
<1> USE DEF SchedulesInv
<1>1. /\ run.at = "found" /\ run' = NoRun /\ queue' = queue
      /\ filing' = [kind |-> run.kind, tenant |-> run.tenant, asked |-> run.asked,
                    since |-> run.since, until |-> today, folder |-> run.folder,
                    period |-> FilingPeriod]
      /\ UNCHANGED <<config, registry, readable, script, astray, beat, today, folders, changes>>
    BY DEF Ingest, RunOnly, fileVars
<1>2. run \in Run /\ run # NoRun /\ today \in Calendar
    BY <1>1 DEF ScheduleTypeOK, NoRun
<1>3. /\ OfToday(run.kind, run.asked) /\ run.since <= today
      /\ IF run.asked # Anytime THEN run.month = run.asked
         ELSE run.since <= run.month /\ run.month <= today
      /\ run.kind # "drive" /\ Tells(run.tenant) => run.folder = run.month
    BY <1>1, <1>2 DEF RunHasItsMonth
<1>4. /\ FilingPeriod \in Calendar \cup {Anytime}
      /\ run.kind = "sales" => FilingPeriod = run.month
      /\ run.kind = "gstr2b" => FilingPeriod = today
    BY <1>2 DEF FilingPeriod, Run
<1>5. ScheduleTypeOK'
    <2>1. filing' \in Filing
        BY <1>1, <1>2, <1>4 DEF Filing, Run
    <2> QED
        BY <1>1, <2>1 DEF ScheduleTypeOK
<1>6. RunHasItsMonth'
    BY <1>1 DEF RunHasItsMonth
<1>7. FiledUnderItsMonth'
    <2>1. /\ filing'.kind = run.kind /\ filing'.tenant = run.tenant /\ filing'.asked = run.asked
          /\ filing'.since = run.since /\ filing'.until = today /\ filing'.folder = run.folder
          /\ filing'.period = FilingPeriod
        BY <1>1
    <2>2. today \in Nat
        BY <1>2, ScheduleConstants
    <2>3. Pattern' = Pattern
        OBVIOUS
    <2>4. CASE run.kind = "drive" \/ ~Tells(run.tenant)
        BY <2>1, <2>4 DEF FiledUnderItsMonth, Tells
    <2>5. CASE run.kind # "drive" /\ Tells(run.tenant)
        BY <1>3, <1>4, <2>1, <2>2, <2>5 DEF FiledUnderItsMonth, Tells, OfToday
    <2> QED
        BY <2>4, <2>5
<1> QED
    BY <1>1, <1>5, <1>6, <1>7, SchedulesStay

\* The month may end under a run.
LEMMA NextMonthPreserves ==
    ASSUME SchedulesInv, NextMonth
    PROVE  SchedulesInv'
<1> USE DEF SchedulesInv
<1>1. /\ today' \in Calendar /\ today' > today
      /\ UNCHANGED <<config, registry, readable, script, astray, beat, folders,
                     queue, run, filing, changes>>
    BY DEF NextMonth, fileVars, taskVars
<1>2. today \in Nat /\ today' \in Nat /\ run \in Run \cup {NoRun}
    BY <1>1, ScheduleConstants DEF ScheduleTypeOK
<1>3. ScheduleTypeOK'
    BY <1>1 DEF ScheduleTypeOK
<1>4. RunHasItsMonth'
    <2>1. run # NoRun => run.since \in Nat /\ run.month \in Nat
        BY <1>2, ScheduleConstants DEF Run
    <2> QED
        BY <1>1, <1>2, <2>1 DEF RunHasItsMonth
<1>5. FiledUnderItsMonth'
    BY <1>1 DEF FiledUnderItsMonth
<1> QED
    BY <1>1, <1>3, <1>4, <1>5, SchedulesStay

\* Every step of the schedules, the tasks and the calendar preserves it.
LEMMA SchedulesStepPreserves == SchedulesInv /\ [ScheduleNext]_scheduleVars => SchedulesInv'
<1> SUFFICES ASSUME SchedulesInv, [ScheduleNext]_scheduleVars PROVE SchedulesInv'
    OBVIOUS
<1> USE DEF SchedulesInv
<1>a. NoRoot \in Roots0 /\ Roots \subseteq Roots0 /\ Anytime \in Asked
      /\ \A k \in Kinds : OfToday(k, Anytime)
    BY DEF Roots0, Asked, OfToday
<1>1. CASE UNCHANGED scheduleVars
    <2>1. ScheduleTypeOK'
        BY <1>1 DEF scheduleVars, ScheduleTypeOK
    <2> QED
        BY <1>1, <2>1, TasksStay, SchedulesStay DEF scheduleVars, taskVars
<1>2. ASSUME NEW t \in Tenants, NEW roots \in Configs, NEW cron \in Crons, SaveConfig(t, roots, cron)
      PROVE  SchedulesInv'
    BY <1>2, SaveConfigPreserves
<1>3. ASSUME NEW t \in Tenants, NEW roots \in Configs, CutOffSave(t, roots)
      PROVE  SchedulesInv'
    BY <1>3, CutOffSavePreserves
<1>4. ASSUME NEW t \in Tenants, NEW cron \in Crons, NEW root \in Roots \ {NoRoot},
             SetupDriveSync(t, root, cron)
      PROVE  SchedulesInv'
    BY <1>4, <1>a, LoadRegistryPreserves DEF SetupDriveSync, Kinds
<1>5. ASSUME NEW t \in Tenants, NEW cron \in Crons, NEW k \in Kinds, SetupIngestion(t, k, cron)
      PROVE  SchedulesInv'
    BY <1>5, <1>a, LoadRegistryPreserves DEF SetupIngestion
<1>6. ASSUME NEW t \in Tenants, NEW cron \in Crons, SetupGstr2b(t, cron)
      PROVE  SchedulesInv'
    BY <1>6, <1>a, LoadRegistryPreserves DEF SetupGstr2b, Kinds
<1>7. ASSUME NEW n \in DOMAIN beat, FireSchedule(n)
      PROVE  SchedulesInv'
    <2>1. beat[n].tenant \in Tenants /\ beat[n].kind \in Kinds /\ beat[n].root \in Roots0
        BY DEF ScheduleTypeOK, IsRegistry, Schedule
    <2> QED
        BY <1>7, <1>a, <2>1, SendPreserves DEF FireSchedule
<1>8. ASSUME NEW t \in Tenants, NEW p \in Asked, TriggerSales(t, p) \/ TriggerPurchase(t, p)
      PROVE  SchedulesInv'
    <2>1. "sales" \in Kinds /\ "purchase" \in Kinds /\ OfToday("sales", p) /\ OfToday("purchase", p)
        BY DEF Kinds, OfToday
    <2> QED
        BY <1>8, <1>a, <2>1, SendPreserves DEF TriggerSales, TriggerPurchase
<1>9. ASSUME NEW t \in Tenants, TriggerGstr2b(t)
      PROVE  SchedulesInv'
    BY <1>9, <1>a, SendPreserves DEF TriggerGstr2b, Kinds
<1>10. ASSUME NEW root \in Roots \ {NoRoot}, NEW m \in Calendar, CreateFolder(root, m)
       PROVE  SchedulesInv'
    <2>1. /\ folders' = folders \cup {<<root, m>>}
          /\ UNCHANGED <<config, registry, readable, script, astray, beat, today,
                         queue, run, filing, changes>>
        BY <1>10 DEF CreateFolder, fileVars, taskVars
    <2>2. ScheduleTypeOK'
        BY <2>1 DEF ScheduleTypeOK
    <2> QED
        BY <2>1, <2>2, TasksStay, SchedulesStay DEF taskVars
<1> QED
    BY <1>1, <1>2, <1>3, <1>4, <1>5, <1>6, <1>7, <1>8, <1>9, <1>10, WriteRegistryPreserves,
       DeployBeatPreserves, TakeMessagePreserves, ReadPathConfigPreserves,
       ResolveMonthFolderPreserves, IngestPreserves, RetryPreserves, LoseRunPreserves,
       NextMonthPreserves
       DEF ScheduleNext

\* Every reachable state satisfies the invariant.
LEMMA SchedulesInvariance == ScheduleSpec => []SchedulesInv
BY SchedulesInitEstablishes, SchedulesStepPreserves, PTL DEF ScheduleSpec

\* Every entry of beat_schedules.json, of a script's copy and of the beat's is
\* filed under its own tenant and kind, and every run and filing is well-typed.
THEOREM SchedulesTypeCorrect == ScheduleSpec => []ScheduleTypeOK
BY SchedulesInvariance, PTL DEF SchedulesInv

\* save_drive_sync_config: a root that was saved stays scheduled in the file, for
\* any tenants and roots and any order of saves and scripts, unless a cut-off
\* write or an older copy took the entry away.
THEOREM ConfigAlwaysScheduled == ScheduleSpec => []ConfigIsScheduled
BY SchedulesInvariance, PTL DEF SchedulesInv

\* A review is filed under the month whose folder was read, for any calendar,
\* fiscal year and pattern whose names tell the months apart.
THEOREM AlwaysFiledUnderItsMonth == ScheduleSpec => []FiledUnderItsMonth
BY SchedulesInvariance, PTL DEF SchedulesInv
------------------------------------------------------------------------------
(* Folder trees: what lies over an item is a chain.                        *)

Parented(tree) == tree \in [DOMAIN tree -> Folders]

\* The folders over an item are found by following its parents.
LEMMA UpFromIsClosed ==
    ASSUME NEW tree, Parented(tree), NEW x
    PROVE  /\ x \in UpFrom(tree, x) /\ UpFrom(tree, x) \subseteq Folders \cup {x}
           /\ \A z \in UpFrom(tree, x) : z \in DOMAIN tree => tree[z] \in UpFrom(tree, x)
<1> DEFINE U == Folders \cup {x}
           Holds(S) == x \in S /\ \A z \in S \cap DOMAIN tree : tree[z] \in S
<1>1. \A y : y \in UpFrom(tree, x) <=> y \in U /\ \A S \in SUBSET U : Holds(S) => y \in S
    BY DEF UpFrom
<1>2. x \in U /\ \A z \in DOMAIN tree : tree[z] \in U
    BY DEF Parented
<1>3. ASSUME NEW z \in UpFrom(tree, x), z \in DOMAIN tree PROVE tree[z] \in UpFrom(tree, x)
    <2>1. tree[z] \in U
        BY <1>2, <1>3
    <2>2. ASSUME NEW S \in SUBSET U, Holds(S) PROVE tree[z] \in S
        <3>1. z \in S
            BY <1>1, <2>2
        <3> QED
            BY <1>3, <2>2, <3>1
    <2> HIDE DEF U, Holds
    <2> QED
        BY <1>1, <2>1, <2>2
<1>4. x \in UpFrom(tree, x)
    BY <1>1, <1>2
<1>5. UpFrom(tree, x) \subseteq U
    BY <1>1
<1> QED
    BY <1>3, <1>4, <1>5

\* They are in every set that holds the item and is closed under parents.
LEMMA UpFromIsLeast ==
    ASSUME NEW tree, Parented(tree), NEW x, NEW S, x \in S,
           \A z \in S : z \in DOMAIN tree => tree[z] \in S
    PROVE  UpFrom(tree, x) \subseteq S
<1> DEFINE U == Folders \cup {x}
           T == S \cap U
<1>1. T \in SUBSET U /\ x \in T
    OBVIOUS
<1>2. \A z \in T \cap DOMAIN tree : tree[z] \in T
    BY DEF Parented
<1>3. \A y \in UpFrom(tree, x) : y \in T
    <2> HIDE DEF T
    <2> QED
        BY <1>1, <1>2 DEF UpFrom
<1> QED
    BY <1>3

\* What is over a folder over an item is over the item.
LEMMA UpFromIsTransitive ==
    ASSUME NEW tree, Parented(tree), NEW x, NEW y \in UpFrom(tree, x)
    PROVE  UpFrom(tree, y) \subseteq UpFrom(tree, x)
<1> DEFINE S == UpFrom(tree, x)
<1>1. y \in S /\ \A z \in S : z \in DOMAIN tree => tree[z] \in S
    BY UpFromIsClosed
<1> HIDE DEF S
<1>2. UpFrom(tree, y) \subseteq S
    BY <1>1, UpFromIsLeast
<1> QED
    BY <1>2 DEF S

\* Over an item are the item itself and what is over its parent.
LEMMA UpFromAParent ==
    ASSUME NEW tree, Parented(tree), NEW x
    PROVE  /\ x \in DOMAIN tree => UpFrom(tree, x) = {x} \cup UpFrom(tree, tree[x])
           /\ x \notin DOMAIN tree => UpFrom(tree, x) = {x}
<1>1. ASSUME x \in DOMAIN tree PROVE UpFrom(tree, x) = {x} \cup UpFrom(tree, tree[x])
    <2> DEFINE q == tree[x]
               S == {x} \cup UpFrom(tree, q)
    <2>1. q \in UpFrom(tree, x) /\ x \in UpFrom(tree, x)
        BY <1>1, UpFromIsClosed
    <2>2. UpFrom(tree, q) \subseteq UpFrom(tree, x)
        BY <2>1, UpFromIsTransitive
    <2>3. x \in S /\ \A z \in S : z \in DOMAIN tree => tree[z] \in S
        <3>1. /\ q \in UpFrom(tree, q)
              /\ \A z \in UpFrom(tree, q) : z \in DOMAIN tree => tree[z] \in UpFrom(tree, q)
            BY UpFromIsClosed
        <3> QED
            BY <3>1
    <2>4. UpFrom(tree, x) \subseteq S
        <3> HIDE DEF S
        <3> QED
            BY <2>3, UpFromIsLeast
    <2> QED
        BY <2>1, <2>2, <2>4
<1>2. ASSUME x \notin DOMAIN tree PROVE UpFrom(tree, x) = {x}
    <2> DEFINE S == {x}
    <2>1. x \in S /\ \A z \in S : z \in DOMAIN tree => tree[z] \in S
        BY <1>2
    <2> HIDE DEF S
    <2>2. UpFrom(tree, x) \subseteq S
        BY <2>1, UpFromIsLeast
    <2>3. x \in UpFrom(tree, x)
        BY UpFromIsClosed
    <2> QED
        BY <2>2, <2>3 DEF S
<1> QED
    BY <1>1, <1>2

\* Of two folders over an item one is over the other.
LEMMA UpFromIsAChain ==
    ASSUME NEW tree, Parented(tree), NEW x, NEW y \in UpFrom(tree, x), NEW z \in UpFrom(tree, x)
    PROVE  y \in UpFrom(tree, z) \/ z \in UpFrom(tree, y)
<1> DEFINE S == {w \in UpFrom(tree, x) : w \in UpFrom(tree, y) \/ y \in UpFrom(tree, w)}
<1>1. x \in S
    BY UpFromIsClosed
<1>2. ASSUME NEW w \in S, w \in DOMAIN tree PROVE tree[w] \in S
    <2>1. tree[w] \in UpFrom(tree, x)
        BY <1>2, UpFromIsClosed
    <2>2. CASE w \in UpFrom(tree, y)
        BY <1>2, <2>1, <2>2, UpFromIsClosed
    <2>3. CASE y \in UpFrom(tree, w)
        <3>1. y = w \/ y \in UpFrom(tree, tree[w])
            BY <1>2, <2>3, UpFromAParent
        <3>2. y = w => tree[w] \in UpFrom(tree, y)
            BY <1>2, UpFromIsClosed
        <3> QED
            BY <2>1, <3>1, <3>2
    <2> QED
        BY <1>2, <2>2, <2>3
<1> HIDE DEF S
<1>3. UpFrom(tree, x) \subseteq S
    BY <1>1, <1>2, UpFromIsLeast
<1> QED
    BY <1>3 DEF S

\* Below a folder over an item lies just one item over the item.
LEMMA OneChildIsOver ==
    ASSUME NEW tree, IsTree(tree), NEW x
    PROVE  /\ \A c, d \in UpFrom(tree, x) : /\ c \in DOMAIN tree /\ d \in DOMAIN tree
                                          /\ tree[c] = tree[d]
                  => c = d
           /\ \A y \in UpFrom(tree, x) : y # x =>
                  \E c \in UpFrom(tree, x) : c \in DOMAIN tree /\ tree[c] = y
<1>0. Parented(tree) /\ \A z \in DOMAIN tree : z \notin UpFrom(tree, tree[z])
    BY DEF IsTree, Parented
<1>1. ASSUME NEW c, NEW d, c \in DOMAIN tree, d \in DOMAIN tree, tree[c] = tree[d], c \in UpFrom(tree, d)
      PROVE  c = d
    <2>1. UpFrom(tree, d) = {d} \cup UpFrom(tree, tree[d])
        BY <1>0, <1>1, UpFromAParent
    <2> QED
        BY <1>0, <1>1, <2>1
<1>2. ASSUME NEW c \in UpFrom(tree, x), NEW d \in UpFrom(tree, x),
             c \in DOMAIN tree, d \in DOMAIN tree, tree[c] = tree[d]
      PROVE  c = d
    <2>1. c \in UpFrom(tree, d) \/ d \in UpFrom(tree, c)
        BY <1>0, UpFromIsAChain
    <2> QED
        BY <1>1, <1>2, <2>1
<1>3. ASSUME NEW y \in UpFrom(tree, x), y # x, \A c \in UpFrom(tree, x) : ~(c \in DOMAIN tree /\ tree[c] = y)
      PROVE  FALSE
    <2> DEFINE S == UpFrom(tree, x) \ {y}
    <2>1. x \in S /\ \A z \in S : z \in DOMAIN tree => tree[z] \in S
        BY <1>0, <1>3, UpFromIsClosed
    <2> HIDE DEF S
    <2>2. UpFrom(tree, x) \subseteq S
        BY <1>0, <2>1, UpFromIsLeast
    <2> QED
        BY <2>2 DEF S
<1> QED
    BY <1>2, <1>3

\* A move puts over an item nothing but what was over it, or is over the
\* folder moved to; an item that the moved one was not over, or is not over,
\* keeps what is over it.
LEMMA MovesAreLocal ==
    ASSUME NEW tree, Parented(tree), NEW x \in DOMAIN tree, NEW B \in Folders,
           NEW after \in [DOMAIN tree -> Folders], after[x] = B,
           \A z \in DOMAIN tree : z # x => after[z] = tree[z], NEW y
    PROVE  /\ Parented(after)
           /\ UpFrom(after, y) \subseteq UpFrom(tree, y) \cup UpFrom(tree, B)
           /\ x \notin UpFrom(tree, y) \/ x \notin UpFrom(after, y) => UpFrom(after, y) = UpFrom(tree, y)
<1>1. /\ Parented(after) /\ DOMAIN after = DOMAIN tree /\ after[x] = B
      /\ \A z \in DOMAIN tree : z # x => after[z] = tree[z]
    BY DEF Parented
<1>2. UpFrom(after, y) \subseteq UpFrom(tree, y) \cup UpFrom(tree, B)
    <2> DEFINE S == UpFrom(tree, y) \cup UpFrom(tree, B)
    <2>1. y \in S /\ B \in S /\ \A z \in S : z \in DOMAIN tree => tree[z] \in S
        BY UpFromIsClosed
    <2>2. \A z \in S : z \in DOMAIN after => after[z] \in S
        BY <1>1, <2>1
    <2> HIDE DEF S
    <2>3. UpFrom(after, y) \subseteq S
        BY <1>1, <2>1, <2>2, UpFromIsLeast
    <2> QED
        BY <2>3 DEF S
<1>3. ASSUME x \notin UpFrom(tree, y) PROVE UpFrom(after, y) \subseteq UpFrom(tree, y)
    <2> DEFINE S == UpFrom(tree, y)
    <2>1. y \in S /\ \A z \in S : z \in DOMAIN tree => tree[z] \in S
        BY UpFromIsClosed
    <2>2. \A z \in S : z \in DOMAIN after => after[z] \in S
        BY <1>1, <1>3, <2>1
    <2> HIDE DEF S
    <2>3. UpFrom(after, y) \subseteq S
        BY <1>1, <2>1, <2>2, UpFromIsLeast
    <2> QED
        BY <2>3 DEF S
<1>4. ASSUME x \notin UpFrom(after, y) PROVE UpFrom(tree, y) \subseteq UpFrom(after, y)
    <2> DEFINE S == UpFrom(after, y)
    <2>1. y \in S /\ \A z \in S : z \in DOMAIN after => after[z] \in S
        BY <1>1, UpFromIsClosed
    <2>2. \A z \in S : z \in DOMAIN tree => tree[z] \in S
        BY <1>1, <1>4, <2>1
    <2> HIDE DEF S
    <2>3. UpFrom(tree, y) \subseteq S
        BY <1>1, <2>1, <2>2, UpFromIsLeast
    <2> QED
        BY <2>3 DEF S
<1> QED
    BY <1>1, <1>2, <1>3, <1>4

\* A folder that is not moved below itself leaves a tree.
LEMMA MovesKeepTheTree ==
    ASSUME NEW tree, IsTree(tree), NEW x \in DOMAIN tree, NEW B \in Folders, x \notin UpFrom(tree, B),
           NEW after \in [DOMAIN tree -> Folders], after[x] = B,
           \A z \in DOMAIN tree : z # x => after[z] = tree[z]
    PROVE  IsTree(after)
<1>1. /\ Parented(tree) /\ DOMAIN after = DOMAIN tree /\ after[x] = B
      /\ \A z \in DOMAIN tree : z # x => after[z] = tree[z]
    BY DEF IsTree, Parented
<1>2. Parented(after) /\ UpFrom(after, B) = UpFrom(tree, B)
    BY <1>1, MovesAreLocal
<1>3. ASSUME NEW z \in DOMAIN after, z \in UpFrom(after, after[z]) PROVE FALSE
    <2> DEFINE q == after[z]
    <2>1. CASE z = x
        BY <1>1, <1>2, <1>3, <2>1
    <2>2. CASE z # x
        <3>1. q = tree[z] /\ z \notin UpFrom(tree, q)
            BY <1>1, <2>2 DEF IsTree
        <3>2. UpFrom(after, q) # UpFrom(tree, q)
            BY <1>3, <3>1
        <3> HIDE DEF q
        <3>3. /\ UpFrom(after, q) \subseteq UpFrom(tree, q) \cup UpFrom(tree, B)
              /\ x \in UpFrom(after, q)
            BY <1>1, <3>2, MovesAreLocal
        <3>4. z \in UpFrom(after, B)
            BY <1>2, <1>3, <3>1, <3>3 DEF q
        <3>5. q \in UpFrom(after, B)
            BY <1>2, <3>4, UpFromIsClosed DEF q
        <3>6. UpFrom(after, q) \subseteq UpFrom(after, B)
            BY <1>2, <3>5, UpFromIsTransitive
        <3> QED
            BY <1>2, <3>3, <3>6
    <2> QED
        BY <2>1, <2>2
<1>4. DOMAIN after \subseteq (Folders \cup Files) \ {Month} /\ after \in [DOMAIN after -> Folders]
    BY <1>1, <1>2 DEF IsTree, Parented
<1> QED
    BY <1>3, <1>4 DEF IsTree
------------------------------------------------------------------------------
(***************************************************************************)
(* The listing.                                                            *)
(*                                                                         *)
(* The listings on the stack are of different ages, so nothing relates     *)
(* them to the tree as it is now, but for the items over a file that stays *)
(* where it is: there, as long as the file is not found, just one item is  *)
(* left to look at, and what the walk has carried down to it is what the   *)
(* folders over it say.  For the others the invariant counts the ways: the *)
(* items over one that are left to look at, and the times it was found.  A *)
(* move adds to them those over the folder moved to.                       *)
(***************************************************************************)

Forces == {"none"} \cup {Named[x] : x \in Folders}
FileTypes == Forces \cup {"archive", "invoice", "client_sheet", "unknown"}
Frame(items) == [forced : Forces, nested : BOOLEAN, items : SUBSET items]

\* The items over x that are left to look at, each with the folder it is left in.
Pending(tree, frames, x) ==
    UNION {{<<k, y>> : y \in frames[k].items \cap UpFrom(tree, x)} : k \in DOMAIN frames}
Waiting(x) == Pending(parent, stack, x)

WalkTypeOK ==
    /\ IsTree(parent)
    /\ walk \in {"idle", "walking", "done", "failed"}
    /\ stack \in Seq(Frame(DOMAIN parent))
    /\ results \in Seq([file : Files, type : FileTypes])
    /\ moved \in Seq(DOMAIN parent)
    /\ walk = "walking" <=> stack # <<>>
    /\ walk = "idle" => results = <<>> /\ moved = <<>>

\* The ways to an item that are left, and those that have been gone, are at
\* most doubled by a move.
WaysAreFew(x) == Cardinality(Waiting(x)) + Cardinality(Found(x)) <= 2^Len(moved)

\* What the walk has carried down to an item is what the folders over it say.
CarriedDown(frame, y) ==
    /\ frame.nested <=> parent[y] # Month
    /\ frame.forced = "none" => Typed(parent[y]) = {}
    /\ frame.forced # "none" =>
          /\ frame.forced # "ignore"
          /\ \E o \in Typed(parent[y]) : /\ Typed(parent[y]) \cap Above(o) = {o}
                                         /\ FolderType(o) = frame.forced

\* A file that stays where it is has been found as its folders say, or there
\* is just one way left to it.
OnItsWay(f) ==
    Stayed(f) =>
        IF Month \in Above(f)
        THEN \/ Waiting(f) = {} /\ FoundAsNamed(f)
             \/ /\ Found(f) = {}
                /\ \E k \in DOMAIN stack, y \in Above(f) :
                      Waiting(f) = {<<k, y>>} /\ CarriedDown(stack[k], y)
        ELSE Waiting(f) = {} /\ Found(f) = {}

WalkInv ==
    /\ WalkTypeOK
    /\ walk \in {"walking", "done"} =>
          /\ \A x \in Folders \cup Files : WaysAreFew(x)
          /\ \A f \in Files : OnItsWay(f)

\* Powers of two, from the sets of subsets.
LEMMA PowersDouble ==
    /\ 2^0 = 1
    /\ \A n \in Nat : 2^n \in Nat /\ 2^(n + 1) = 2^n + 2^n
<1>1. \A n \in Nat : /\ IsFiniteSet(1..n) /\ Cardinality(1..n) = n
                     /\ IsFiniteSet(SUBSET (1..n)) /\ Cardinality(SUBSET (1..n)) = 2^n
    <2> TAKE n \in Nat
    <2>1. IsFiniteSet(1..n) /\ Cardinality(1..n) = n
        <3>1. 1 \in Int /\ n \in Int
            OBVIOUS
        <3>2. Cardinality(1..n) = (IF 1 > n THEN 0 ELSE n - 1 + 1) /\ IsFiniteSet(1..n)
            BY <3>1, FS_Interval
        <3> QED
            BY <3>2
    <2>2. IsFiniteSet(SUBSET (1..n)) /\ Cardinality(SUBSET (1..n)) = 2^Cardinality(1..n)
        BY <2>1, FS_SUBSET
    <2> QED
        BY <2>1, <2>2
<1>2. 2^0 = 1
    <2>1. SUBSET (1..0) = {{}}
        OBVIOUS
    <2>2. Cardinality({{}}) = 1
        BY FS_Singleton
    <2>3. Cardinality(SUBSET (1..0)) = 2^0
        BY <1>1
    <2> QED
        BY <2>1, <2>2, <2>3
<1>3. ASSUME NEW n \in Nat PROVE 2^n \in Nat /\ 2^(n + 1) = 2^n + 2^n
    <2> DEFINE old == SUBSET (1..n)
               new == {T \cup {n + 1} : T \in old}
               add == [T \in old |-> T \cup {n + 1}]
    <2>1. SUBSET (1..(n + 1)) = old \cup new
        <3>1. ASSUME NEW T \in SUBSET (1..(n + 1)) PROVE T \in old \cup new
            <4>1. CASE n + 1 \in T
                <5>1. T \ {n + 1} \in old /\ T = (T \ {n + 1}) \cup {n + 1}
                    BY <4>1
                <5> QED
                    BY <5>1
            <4>2. CASE n + 1 \notin T
                BY <4>2
            <4> QED
                BY <4>1, <4>2
        <3>2. ASSUME NEW T \in old PROVE T \in SUBSET (1..(n + 1)) /\ T \cup {n + 1} \in SUBSET (1..(n + 1))
            OBVIOUS
        <3> HIDE DEF old
        <3> QED
            BY <3>1, <3>2
    <2>2. old \cap new = {}
        OBVIOUS
    <2>3. ExistsBijection(old, new)
        <3>1. add \in [old -> new]
            OBVIOUS
        <3>2. ASSUME NEW S \in old, NEW T \in old, add[S] = add[T] PROVE S = T
            <4>1. S \cup {n + 1} = T \cup {n + 1} /\ n + 1 \notin S /\ n + 1 \notin T
                BY <3>2
            <4> QED
                BY <4>1
        <3>3. \A W \in new : \E T \in old : add[T] = W
            OBVIOUS
        <3> HIDE DEF old, new, add
        <3>4. add \in Bijection(old, new)
            BY <3>1, <3>2, <3>3 DEF Bijection, Injection, Surjection, IsInjective
        <3> QED
            BY <3>4 DEF ExistsBijection
    <2>4. /\ IsFiniteSet(old) /\ Cardinality(old) = 2^n
          /\ Cardinality(SUBSET (1..(n + 1))) = 2^(n + 1)
        <3>1. IsFiniteSet(SUBSET (1..n)) /\ Cardinality(SUBSET (1..n)) = 2^n
            BY <1>1
        <3> DEFINE m == n + 1
        <3>2. m \in Nat
            OBVIOUS
        <3> HIDE DEF m
        <3>3. Cardinality(SUBSET (1..m)) = 2^m
            BY <1>1, <3>2
        <3> QED
            BY <3>1, <3>3 DEF m
    <2> HIDE DEF old, new, add
    <2>5. IsFiniteSet(new) /\ Cardinality(new) = Cardinality(old)
        BY <2>3, <2>4, FS_Bijection
    <2>6. Cardinality(old \cup new) = Cardinality(old) + Cardinality(new) - Cardinality({})
        BY <2>2, <2>4, <2>5, FS_Union
    <2>7. Cardinality({}) = 0 /\ Cardinality(old) \in Nat
        BY <2>4, FS_EmptySet, FS_CardinalityType
    <2>8. Cardinality(old \cup new) = 2^n + 2^n
        BY <2>4, <2>5, <2>6, <2>7
    <2>9. 2^n \in Nat
        BY <2>4, <2>7
    <2> QED
        BY <2>1, <2>4, <2>8, <2>9
<1> QED
    BY <1>2, <1>3

\* Pairs of finitely many things are finitely many.
LEMMA PairsAreFinite ==
    ASSUME NEW S, NEW T, IsFiniteSet(S), IsFiniteSet(T),
           NEW P, \A e \in P : e = <<e[1], e[2]>> /\ e[1] \in S /\ e[2] \in T
    PROVE  IsFiniteSet(P)
<1>1. IsFiniteSet(S \X T)
    BY FS_Product
<1>2. \A e \in P : e \in S \X T
    OBVIOUS
<1> QED
    BY <1>1, <1>2, FS_Subset

\* The pairs that are left, one by one.
LEMMA PendingPairs ==
    ASSUME NEW tree, NEW frames, NEW x
    PROVE  /\ \A k, y : <<k, y>> \in Pending(tree, frames, x) <=>
                  k \in DOMAIN frames /\ y \in UpFrom(tree, x) /\ y \in frames[k].items
           /\ \A e \in Pending(tree, frames, x) :
                  /\ e = <<e[1], e[2]>> /\ e[1] \in DOMAIN frames
                  /\ e[2] \in UpFrom(tree, x) /\ e[2] \in frames[e[1]].items
BY DEF Pending

\* What is left to look at is finite.
LEMMA PendingIsFinite ==
    ASSUME NEW tree, Parented(tree), NEW S, NEW frames \in Seq(S), NEW x
    PROVE  IsFiniteSet(Pending(tree, frames, x)) /\ Cardinality(Pending(tree, frames, x)) \in Nat
<1>1. IsFiniteSet(Folders)
    BY WalkConstants
<1>2. IsFiniteSet(Folders \cup {x})
    BY <1>1, FS_AddElement
<1>3. IsFiniteSet(UpFrom(tree, x))
    BY <1>2, UpFromIsClosed, FS_Subset
<1>4. IsFiniteSet(DOMAIN frames)
    <2>1. 1 \in Int /\ Len(frames) \in Int /\ DOMAIN frames = 1..Len(frames)
        OBVIOUS
    <2> QED
        BY <2>1, FS_Interval
<1>5. \A e \in Pending(tree, frames, x) :
          e = <<e[1], e[2]>> /\ e[1] \in DOMAIN frames /\ e[2] \in UpFrom(tree, x)
    BY PendingPairs
<1>6. IsFiniteSet(Pending(tree, frames, x))
    BY <1>3, <1>4, <1>5, PairsAreFinite
<1> QED
    BY <1>6, FS_CardinalityType

\* A folder is entered: its listing is added to what is left.
LEMMA PendingAfterEntering ==
    ASSUME NEW tree, NEW S, NEW frames \in Seq(S), NEW frame \in S, NEW x
    PROVE  Pending(tree, Append(frames, frame), x)
               = Pending(tree, frames, x)
                     \cup {<<Len(frames) + 1, c>> : c \in frame.items \cap UpFrom(tree, x)}
<1> DEFINE after == Append(frames, frame)
           m == Len(frames) + 1
           new == {<<m, c>> : c \in frame.items \cap UpFrom(tree, x)}
           P == Pending(tree, frames, x) \cup new
<1>1. /\ m \notin DOMAIN frames /\ DOMAIN after = DOMAIN frames \cup {m} /\ after[m] = frame
      /\ \A k \in DOMAIN frames : after[k] = frames[k]
    OBVIOUS
<1> HIDE DEF after, m
<1>2. \A k, z : <<k, z>> \in new <=> k = m /\ z \in UpFrom(tree, x) /\ z \in frame.items
    OBVIOUS
<1>3. \A e \in new : e = <<e[1], e[2]>>
    OBVIOUS
<1> HIDE DEF new
<1>4. \A k, z : <<k, z>> \in P <=> k \in DOMAIN after /\ z \in UpFrom(tree, x) /\ z \in after[k].items
    BY <1>1, <1>2, PendingPairs
<1>5. \A e \in P : e = <<e[1], e[2]>>
    BY <1>3, PendingPairs
<1>6. Pending(tree, after, x) = P
    <2> HIDE DEF P
    <2>1. \A k, z : <<k, z>> \in Pending(tree, after, x) <=> <<k, z>> \in P
        BY <1>4, PendingPairs
    <2>2. \A e \in Pending(tree, after, x) : e = <<e[1], e[2]>>
        BY PendingPairs
    <2> QED
        BY <1>5, <2>1, <2>2
<1> QED
    BY <1>6 DEF after, m, new

\* A folder is left when nothing is left of its listing.
LEMMA PendingAfterLeaving ==
    ASSUME NEW tree, NEW S, NEW frames \in Seq(S), frames # <<>>,
           frames[Len(frames)].items = {}, NEW x
    PROVE  /\ SubSeq(frames, 1, Len(frames) - 1) \in Seq(S)
           /\ Len(SubSeq(frames, 1, Len(frames) - 1)) = Len(frames) - 1
           /\ \A k \in 1..(Len(frames) - 1) :
                  k \in DOMAIN frames /\ SubSeq(frames, 1, Len(frames) - 1)[k] = frames[k]
           /\ Pending(tree, SubSeq(frames, 1, Len(frames) - 1), x) = Pending(tree, frames, x)
<1> DEFINE n == Len(frames)
           after == SubSeq(frames, 1, n - 1)
           P == Pending(tree, frames, x)
<1>1. n \in Nat \ {0} /\ DOMAIN frames = 1..n
    OBVIOUS
<1>2. /\ after \in Seq(S) /\ Len(after) = n - 1 /\ DOMAIN after = 1..(n - 1)
      /\ \A k \in 1..(n - 1) : k \in DOMAIN frames /\ after[k] = frames[k]
      /\ DOMAIN frames = DOMAIN after \cup {n}
    BY <1>1
<1> HIDE DEF after
<1>3. \A k, z : <<k, z>> \in P <=> k \in DOMAIN after /\ z \in UpFrom(tree, x) /\ z \in after[k].items
    <2>1. \A k \in DOMAIN after : k \in DOMAIN frames /\ after[k] = frames[k]
        BY <1>2
    <2>2. \A k \in DOMAIN frames : k \in DOMAIN after \/ frames[k].items = {}
        BY <1>2
    <2> HIDE DEF n
    <2> QED
        BY <2>1, <2>2, PendingPairs
<1>4. \A e \in P : e = <<e[1], e[2]>>
    BY PendingPairs
<1>5. Pending(tree, after, x) = P
    <2> HIDE DEF P
    <2>1. \A k, z : <<k, z>> \in Pending(tree, after, x) <=> <<k, z>> \in P
        BY <1>3, PendingPairs
    <2>2. \A e \in Pending(tree, after, x) : e = <<e[1], e[2]>>
        BY PendingPairs
    <2> QED
        BY <1>4, <2>1, <2>2
<1> QED
    BY <1>2, <1>5 DEF after
------------------------------------------------------------------------------
(* What the folders over an item say of it.                                *)

\* One item of a folder's listing lies over an item that the folder is over.
LEMMA OneChildIsListed ==
    ASSUME IsTree(parent), NEW y, NEW x
    PROVE  /\ y \in Above(x) /\ y # x =>
                 \E c \in Above(x) : c \in DOMAIN parent /\ parent[c] = y
                                     /\ Children(y) \cap Above(x) = {c}
           /\ y \notin Above(x) \/ y = x => Children(y) \cap Above(x) = {}
<1>0. Parented(parent) /\ \A z \in DOMAIN parent : z \notin UpFrom(parent, parent[z])
    BY DEF IsTree, Parented
<1>1. ASSUME y \in Above(x), y # x
      PROVE  \E c \in Above(x) : c \in DOMAIN parent /\ parent[c] = y
                                 /\ Children(y) \cap Above(x) = {c}
    <2>1. PICK c \in Above(x) : c \in DOMAIN parent /\ parent[c] = y
        BY <1>1, OneChildIsOver DEF Above
    <2>2. ASSUME NEW d \in Children(y) \cap Above(x) PROVE d = c
        <3>1. d \in DOMAIN parent /\ parent[d] = parent[c] /\ d \in Above(x)
            BY <2>1 DEF Children
        <3> QED
            BY <2>1, <3>1, OneChildIsOver DEF Above
    <2>3. c \in Children(y)
        BY <2>1 DEF Children
    <2> QED
        BY <2>1, <2>2, <2>3
<1>2. ASSUME y \notin Above(x) \/ y = x, NEW c \in Children(y) \cap Above(x) PROVE FALSE
    <2>1. c \in DOMAIN parent /\ parent[c] = y /\ c \in UpFrom(parent, x)
        BY DEF Children, Above
    <2>2. y \in UpFrom(parent, x)
        BY <1>0, <2>1, UpFromIsClosed
    <2>3. y = x
        BY <1>2, <2>2 DEF Above
    <2> QED
        BY <1>0, <2>1, <2>3
<1> QED
    BY <1>1, <1>2

\* Over the items of a folder that have a type are those over the folder.
LEMMA TypedIsInherited ==
    ASSUME IsTree(parent), NEW x \in DOMAIN parent
    PROVE  /\ Typed(parent[x]) \subseteq Typed(x) /\ x \notin Above(parent[x])
           /\ \A y \in Typed(x) : y \in Typed(parent[x]) \/ y = x
           /\ x \in Typed(x) <=> x \in Folders /\ FolderType(x) # "none"
<1>1. Above(x) = {x} \cup Above(parent[x]) /\ x # Month /\ x \notin Above(parent[x])
    BY UpFromAParent DEF IsTree, Parented, Above
<1> QED
    BY <1>1 DEF Typed

\* Only one typed folder is the outermost.
LEMMA OutermostIs ==
    ASSUME IsTree(parent), NEW x, NEW o \in Typed(x), Typed(x) \cap Above(o) = {o}
    PROVE  Outermost(x) = o
<1> DEFINE Top0(y) == y \in Typed(x) /\ Typed(x) \cap Above(y) = {y}
<1>1. ASSUME NEW y, Top0(y) PROVE y = o
    <2>1. y \in UpFrom(parent, x) /\ o \in UpFrom(parent, x)
        BY <1>1 DEF Typed, Above
    <2>2. y \in Above(o) \/ o \in Above(y)
        BY <2>1, UpFromIsAChain DEF IsTree, Parented, Above
    <2> QED
        BY <1>1, <2>2
<1>2. Top0(o)
    OBVIOUS
<1>3. Outermost(x) = CHOOSE y : Top0(y)
    BY DEF Outermost
<1> HIDE DEF Top0
<1> QED
    BY <1>1, <1>2, <1>3

\* What has been found of an item.
LEMMA FoundIsFinite ==
    ASSUME WalkTypeOK, NEW x
    PROVE  IsFiniteSet(Found(x)) /\ Cardinality(Found(x)) \in Nat
<1>1. DOMAIN results = 1..Len(results) /\ Len(results) \in Int /\ 1 \in Int
    BY DEF WalkTypeOK
<1>2. IsFiniteSet(DOMAIN results)
    BY <1>1, FS_Interval
<1>3. Found(x) \subseteq DOMAIN results
    BY DEF Found
<1> QED
    BY <1>2, <1>3, FS_Subset, FS_CardinalityType

\* What is left to look at, and what has been found, by an item's name.
LEMMA WaitingIsFinite ==
    ASSUME WalkTypeOK, NEW x
    PROVE  IsFiniteSet(Waiting(x)) /\ Cardinality(Waiting(x)) \in Nat
<1>1. Parented(parent) /\ stack \in Seq(Frame(DOMAIN parent))
    BY DEF WalkTypeOK, IsTree, Parented
<1> QED
    BY <1>1, PendingIsFinite DEF Waiting

\* A file that a step does not come to is where it was.
LEMMA FileIsLeftAlone ==
    ASSUME NEW f \in Files, OnItsWay(f), UNCHANGED <<parent, mode, moved>>,
           Waiting(f)' = Waiting(f), Found(f)' = Found(f),
           \A i \in Found(f) : results'[i] = results[i],
           \A k, y : <<k, y>> \in Waiting(f) =>
               /\ k \in DOMAIN stack'
               /\ stack'[k].forced = stack[k].forced /\ stack'[k].nested = stack[k].nested
    PROVE  OnItsWay(f)'
<1>1. /\ \A z : Above(z)' = Above(z) /\ Typed(z)' = Typed(z) /\ FolderType(z)' = FolderType(z)
      /\ Stayed(f)' <=> Stayed(f)
    BY DEF Above, Typed, FolderType, Stayed
<1>2. FoundAsNamed(f)' <=> FoundAsNamed(f)
    <2>1. Outermost(f)' = Outermost(f)
        BY DEF Outermost, Typed, Above, FolderType
    <2> QED
        BY <1>1, <2>1 DEF FoundAsNamed
<1>3. ASSUME NEW k \in DOMAIN stack, NEW y \in Above(f), Waiting(f) = {<<k, y>>},
             CarriedDown(stack[k], y)
      PROVE  k \in DOMAIN stack' /\ CarriedDown(stack[k], y)'
    <2>1. /\ k \in DOMAIN stack'
          /\ stack'[k].forced = stack[k].forced /\ stack'[k].nested = stack[k].nested
        BY <1>3
    <2> QED
        BY <1>1, <1>3, <2>1 DEF CarriedDown
<1> QED
    BY <1>1, <1>2, <1>3 DEF OnItsWay
------------------------------------------------------------------------------
(* The steps of the walk.                                                  *)

\* The invariant holds initially.
LEMMA WalkInitEstablishes == WalkInit => WalkInv
<1> SUFFICES ASSUME WalkInit PROVE WalkInv
    OBVIOUS
<1>1. IsTree(parent)
    BY WalkConstants DEF WalkInit
<1>2. walk = "idle" /\ stack = <<>> /\ results = <<>> /\ moved = <<>>
    BY DEF WalkInit
<1> QED
    BY <1>1, <1>2 DEF WalkInv, WalkTypeOK

\* A walk starts with one way to what lies below the month's folder.
LEMMA StartWalkPreserves ==
    ASSUME WalkInv, NEW kind, StartWalk(kind)
    PROVE  WalkInv'
<1> DEFINE first == [forced |-> "none", nested |-> FALSE, items |-> Children(Month)]
<1>1. /\ WalkTypeOK /\ results = <<>> /\ moved = <<>> /\ IsTree(parent) /\ stack = <<>>
      /\ walk' = "walking" /\ mode' = kind /\ stack' = <<first>>
      /\ UNCHANGED <<parent, results, moved>>
    BY DEF StartWalk, WalkInv, WalkTypeOK
<1>2. first \in Frame(DOMAIN parent) /\ first.items = Children(Month)
    BY DEF Frame, Forces, Children
<1>3. WalkTypeOK'
    <2> HIDE DEF first
    <2>1. stack' \in Seq(Frame(DOMAIN parent)) /\ stack' # <<>>
        BY <1>1, <1>2
    <2> QED
        BY <1>1, <2>1 DEF WalkTypeOK
<1>4. \A z : Waiting(z)' = {<<1, c>> : c \in Children(Month) \cap Above(z)}
    <2> TAKE z
    <2> DEFINE none == <<>>
    <2>1. none \in Seq(Frame(DOMAIN parent)) /\ Pending(parent, none, z) = {}
        BY PendingPairs
    <2>2. stack' = Append(none, first) /\ Len(none) + 1 = 1
        BY <1>1
    <2> HIDE DEF first, none
    <2>3. Pending(parent, Append(none, first), z)
              = Pending(parent, none, z) \cup {<<Len(none) + 1, c>> : c \in first.items \cap UpFrom(parent, z)}
        BY <1>2, <2>1, PendingAfterEntering
    <2> QED
        BY <1>1, <1>2, <2>1, <2>2, <2>3 DEF Waiting, Above
<1>5. \A z : Found(z)' = {}
    BY <1>1 DEF Found
<1>6. \A z : /\ Month \in Above(z) /\ Month # z =>
                   \E c \in Above(z) : /\ c \in DOMAIN parent /\ parent[c] = Month
                                       /\ Waiting(z)' = {<<1, c>>}
             /\ Month \notin Above(z) \/ Month = z => Waiting(z)' = {}
    <2> TAKE z
    <2>1. ASSUME Month \in Above(z), Month # z
          PROVE  \E c \in Above(z) : /\ c \in DOMAIN parent /\ parent[c] = Month
                                     /\ Waiting(z)' = {<<1, c>>}
        <3>1. PICK c \in Above(z) : /\ c \in DOMAIN parent /\ parent[c] = Month
                                    /\ Children(Month) \cap Above(z) = {c}
            BY <1>1, <2>1, OneChildIsListed
        <3>2. Waiting(z)' = {<<1, c>>}
            BY <1>4, <3>1
        <3> QED
            BY <3>1, <3>2
    <2>2. ASSUME Month \notin Above(z) \/ Month = z PROVE Waiting(z)' = {}
        <3>1. Children(Month) \cap Above(z) = {}
            BY <1>1, <2>2, OneChildIsListed
        <3> QED
            BY <1>4, <3>1
    <2> QED
        BY <2>1, <2>2
<1>7. ASSUME NEW z PROVE WaysAreFew(z)'
    <2>1. Waiting(z)' = {} \/ \E e : Waiting(z)' = {e}
        BY <1>6
    <2>2. Cardinality(Waiting(z)') \in {0, 1}
        BY <2>1, FS_EmptySet, FS_Singleton
    <2>3. Cardinality(Found(z)') = 0
        BY <1>5, FS_EmptySet
    <2>4. 2^Len(moved') = 1
        <3>1. Len(moved') = 0
            BY <1>1
        <3> QED
            BY <3>1, PowersDouble
    <2> QED
        BY <2>2, <2>3, <2>4 DEF WaysAreFew
<1>8. ASSUME NEW f \in Files PROVE OnItsWay(f)'
    <2>1. Above(f)' = Above(f) /\ f # Month
        BY <1>1, WalkConstants DEF Above
    <2>2. CASE Month \in Above(f)
        <3>1. PICK c \in Above(f) : /\ c \in DOMAIN parent /\ parent[c] = Month
                                    /\ Waiting(f)' = {<<1, c>>}
            BY <1>6, <2>1, <2>2
        <3>2. 1 \in DOMAIN stack' /\ stack'[1] = first
            BY <1>1
        <3>3. Typed(Month)' = {}
            <4>1. UpFrom(parent, Month) = {Month}
                BY <1>1, UpFromAParent DEF IsTree, Parented
            <4> QED
                BY <1>1, <4>1 DEF Typed, Above
        <3>4. CarriedDown(stack[1], c)'
            BY <1>1, <3>1, <3>2, <3>3 DEF CarriedDown
        <3> QED
            BY <1>5, <2>1, <2>2, <3>1, <3>2, <3>4 DEF OnItsWay
    <2>3. CASE Month \notin Above(f)
        BY <1>5, <1>6, <2>1, <2>3 DEF OnItsWay
    <2> QED
        BY <2>2, <2>3
<1> QED
    BY <1>3, <1>7, <1>8 DEF WalkInv

\* What taking an item from the folder on top leaves to look at.
LEMMA TakingLeaves ==
    ASSUME WalkTypeOK, walk = "walking", NEW x \in Top.items
    PROVE  /\ Len(stack) \in DOMAIN stack /\ x \in DOMAIN parent
           /\ Left(x) \in Seq(Frame(DOMAIN parent)) /\ Len(Left(x)) = Len(stack)
           /\ DOMAIN Left(x) = DOMAIN stack /\ Left(x) # <<>>
           /\ \A k \in DOMAIN stack : /\ Left(x)[k].forced = stack[k].forced
                                      /\ Left(x)[k].nested = stack[k].nested
           /\ \A z : /\ Pending(parent, Left(x), z) = Waiting(z) \ {<<Len(stack), x>>}
                     /\ x \in Above(z) <=> <<Len(stack), x>> \in Waiting(z)
<1> DEFINE n == Len(stack)
           after == Left(x)
<1>1. /\ stack \in Seq(Frame(DOMAIN parent)) /\ n \in DOMAIN stack /\ n \in Nat
      /\ DOMAIN stack = 1..n /\ x \in stack[n].items
      /\ \A k \in DOMAIN stack : stack[k] \in Frame(DOMAIN parent)
    BY DEF WalkTypeOK, Top
<1>2. /\ DOMAIN after = DOMAIN stack
      /\ \A k \in DOMAIN stack : k # n => after[k] = stack[k]
      /\ after[n] = [stack[n] EXCEPT !.items = @ \ {x}]
    BY <1>1 DEF Left
<1>5. /\ after[n].items = stack[n].items \ {x}
      /\ after[n].forced = stack[n].forced /\ after[n].nested = stack[n].nested
      /\ after[n] \in Frame(DOMAIN parent)
    BY <1>1, <1>2 DEF Frame
<1>6. \A k \in DOMAIN stack : /\ after[k].forced = stack[k].forced
                              /\ after[k].nested = stack[k].nested
    BY <1>2, <1>5
<1>7. after \in Seq(Frame(DOMAIN parent)) /\ Len(after) = n /\ after # <<>>
    <2>1. \A k \in 1..n : after[k] \in Frame(DOMAIN parent)
        BY <1>1, <1>2, <1>5
    <2>2. after = [k \in DOMAIN stack |-> after[k]]
        BY <1>1 DEF Left
    <2>3. after \in [1..n -> Frame(DOMAIN parent)]
        <3> HIDE DEF n, after
        <3> QED
            BY <1>1, <2>1, <2>2
    <2> HIDE DEF after
    <2> QED
        BY <1>1, <2>3
<1> HIDE DEF after
<1>3. x \in DOMAIN parent
    <2>1. stack[n] \in Frame(DOMAIN parent)
        BY <1>1, <1>2
    <2> QED
        BY <1>1, <2>1 DEF Frame
<1>4. ASSUME NEW z
      PROVE  /\ Pending(parent, after, z) = Waiting(z) \ {<<n, x>>}
             /\ x \in Above(z) <=> <<n, x>> \in Waiting(z)
    <2> DEFINE P == Pending(parent, stack, z) \ {<<n, x>>}
    <2> HIDE DEF n
    <2>1. /\ n \in DOMAIN stack /\ x \in stack[n].items /\ DOMAIN after = DOMAIN stack
          /\ \A k \in DOMAIN stack : k # n => after[k] = stack[k]
          /\ after[n].items = stack[n].items \ {x}
        BY <1>1, <1>2, <1>5
    <2>2. \A k, y : <<k, y>> \in P <=> k \in DOMAIN after /\ y \in UpFrom(parent, z) /\ y \in after[k].items
        BY <2>1, PendingPairs
    <2>3. \A e \in P : e = <<e[1], e[2]>>
        BY PendingPairs
    <2>4. x \in Above(z) <=> <<n, x>> \in Pending(parent, stack, z)
        BY <2>1, PendingPairs DEF Above
    <2> HIDE DEF P
    <2>5. \A k, y : <<k, y>> \in Pending(parent, after, z) <=> <<k, y>> \in P
        BY <2>2, PendingPairs
    <2>6. \A e \in Pending(parent, after, z) : e = <<e[1], e[2]>>
        BY PendingPairs
    <2>7. Pending(parent, after, z) = P
        BY <2>3, <2>5, <2>6
    <2> QED
        BY <2>4, <2>7 DEF Waiting, P
<1> QED
    BY <1>1, <1>2, <1>3, <1>4, <1>6, <1>7 DEF after

\* A file that is taken has one way to it less, and is found once more.
LEMMA TakeFilePreserves ==
    ASSUME WalkInv, NEW x \in Top.items, TakeFile(x)
    PROVE  WalkInv'
<1> DEFINE n == Len(stack)
           m == Len(results) + 1
           entry == [file |-> x, type |-> TypeOf(x, Top.forced, Top.nested)]
<1>1. /\ WalkTypeOK /\ IsTree(parent) /\ walk = "walking" /\ x \in Files /\ x \notin Folders
      /\ stack' = Left(x) /\ results' = Append(results, entry)
      /\ UNCHANGED <<parent, walk, mode, moved>>
    BY WalkConstants DEF TakeFile, WalkInv, WalkTypeOK
<1>2. /\ n \in DOMAIN stack /\ x \in DOMAIN parent
      /\ Left(x) \in Seq(Frame(DOMAIN parent))
      /\ DOMAIN Left(x) = DOMAIN stack /\ Left(x) # <<>>
      /\ \A k \in DOMAIN stack : /\ Left(x)[k].forced = stack[k].forced
                                 /\ Left(x)[k].nested = stack[k].nested
      /\ \A z : /\ Pending(parent, Left(x), z) = Waiting(z) \ {<<n, x>>}
                /\ x \in Above(z) <=> <<n, x>> \in Waiting(z)
    BY <1>1, TakingLeaves
<1>3. /\ stack[n] \in Frame(DOMAIN parent) /\ Top = stack[n]
      /\ results \in Seq([file : Files, type : FileTypes])
    BY <1>1, <1>2 DEF WalkTypeOK, Top
<1>4. entry \in [file : Files, type : FileTypes] /\ entry.file = x
    BY <1>1, <1>3 DEF TypeOf, PurchaseFileType, RootFileType, FileTypes, Frame
<1>5. /\ m \notin DOMAIN results /\ DOMAIN results' = DOMAIN results \cup {m} /\ results'[m] = entry
      /\ \A i \in DOMAIN results : results'[i] = results[i]
      /\ results' \in Seq([file : Files, type : FileTypes])
    <2> DEFINE Listed == [file : Files, type : FileTypes]
    <2>1. results \in Seq(Listed) /\ entry \in Listed
        BY <1>3, <1>4
    <2> HIDE DEF Listed, entry
    <2>2. /\ m \notin DOMAIN results /\ DOMAIN results' = DOMAIN results \cup {m} /\ results'[m] = entry
          /\ \A i \in DOMAIN results : results'[i] = results[i]
          /\ results' \in Seq(Listed)
        BY <1>1, <2>1
    <2> QED
        BY <2>2 DEF Listed, entry
<1> HIDE DEF n, m, entry
<1>6. WalkTypeOK'
    BY <1>1, <1>2, <1>5 DEF WalkTypeOK
<1>7. \A z : Waiting(z)' = Waiting(z) \ {<<n, x>>}
    BY <1>1, <1>2 DEF Waiting
<1>8. \A z : Found(z)' = IF z = x THEN Found(z) \cup {m} ELSE Found(z)
    BY <1>4, <1>5 DEF Found
<1>9. ASSUME NEW z, z # x, z \in Folders \cup Files PROVE Waiting(z)' = Waiting(z) /\ Found(z)' = Found(z)
    <2>1. x \notin Above(z)
        <3>1. Above(z) \subseteq Folders \cup {z}
            BY <1>1, UpFromIsClosed DEF Above, IsTree, Parented
        <3> QED
            BY <1>1, <1>9, <3>1
    <2> QED
        BY <1>2, <1>7, <1>8, <1>9, <2>1
<1>10. <<n, x>> \in Waiting(x) /\ m \notin Found(x)
    <2>1. x \in Above(x)
        BY <1>1, UpFromIsClosed DEF Above, IsTree, Parented
    <2> QED
        BY <1>2, <1>5, <2>1 DEF Found
<1>11. ASSUME NEW z \in Folders \cup Files PROVE WaysAreFew(z)'
    <2>1. WaysAreFew(z)
        BY <1>1 DEF WalkInv
    <2>2. CASE z # x
        <3>1. Waiting(z)' = Waiting(z) /\ Found(z)' = Found(z)
            BY <1>9, <2>2
        <3> QED
            BY <1>1, <2>1, <3>1 DEF WaysAreFew
    <2>3. CASE z = x
        <3>1. IsFiniteSet(Waiting(x)) /\ Cardinality(Waiting(x)) \in Nat
            BY <1>1, WaitingIsFinite
        <3>2. IsFiniteSet(Found(x)) /\ Cardinality(Found(x)) \in Nat
            BY <1>1, FoundIsFinite
        <3>3. Cardinality(Waiting(x) \ {<<n, x>>}) = Cardinality(Waiting(x)) - 1
            BY <1>10, <3>1, FS_RemoveElement
        <3>4. Cardinality(Found(x) \cup {m}) = Cardinality(Found(x)) + 1
            BY <1>10, <3>2, FS_AddElement
        <3>5. /\ Cardinality(Waiting(x)') = Cardinality(Waiting(x)) - 1
              /\ Cardinality(Found(x)') = Cardinality(Found(x)) + 1
            BY <1>7, <1>8, <3>3, <3>4
        <3> QED
            BY <1>1, <2>1, <2>3, <3>1, <3>2, <3>5 DEF WaysAreFew
    <2> QED
        BY <2>2, <2>3
<1>12. ASSUME NEW f \in Files PROVE OnItsWay(f)'
    <2>1. OnItsWay(f)
        BY <1>1 DEF WalkInv
    <2>2. CASE f # x
        <3>1. Waiting(f)' = Waiting(f) /\ Found(f)' = Found(f)
            BY <1>9, <2>2
        <3>2. \A i \in Found(f) : results'[i] = results[i]
            BY <1>5 DEF Found
        <3>3. \A k, y : <<k, y>> \in Waiting(f) =>
                  /\ k \in DOMAIN stack'
                  /\ stack'[k].forced = stack[k].forced /\ stack'[k].nested = stack[k].nested
            BY <1>1, <1>2, PendingPairs DEF Waiting
        <3> QED
            BY <1>1, <2>1, <3>1, <3>2, <3>3, FileIsLeftAlone
    <2>3. CASE f = x
        <3> SUFFICES ASSUME Stayed(x)'
                     PROVE  /\ Month \in Above(x)
                            /\ Waiting(x)' = {} /\ FoundAsNamed(x)'
            BY <1>1, <2>3 DEF OnItsWay, Above
        <3>1. Stayed(x)
            BY <1>1 DEF Stayed, Above
        <3>2. /\ Month \in Above(x) /\ Found(x) = {}
              /\ \E k \in DOMAIN stack, y \in Above(x) :
                     Waiting(x) = {<<k, y>>} /\ CarriedDown(stack[k], y)
            BY <1>10, <2>1, <2>3, <3>1 DEF OnItsWay
        <3>3. Waiting(x) = {<<n, x>>} /\ CarriedDown(Top, x)
            BY <1>3, <1>10, <3>2
        <3>4. Waiting(x)' = {} /\ Found(x)' = {m}
            BY <1>7, <1>8, <3>2, <3>3
        <3>5. Cardinality(Found(x)') = 1
            BY <3>4, FS_Singleton
        <3>6. results'[m].type = TypeOf(x, Top.forced, Top.nested)
            BY <1>5 DEF entry
        <3>7. Typed(x) = Typed(parent[x])
            <4>1. /\ Typed(parent[x]) \subseteq Typed(x) /\ x \notin Typed(x)
                  /\ \A y \in Typed(x) : y \in Typed(parent[x]) \/ y = x
                BY <1>1, <1>2, TypedIsInherited
            <4> QED
                BY <4>1
        <3>8. CASE Top.forced = "none"
            <4>1. Typed(x) = {} /\ (Top.nested <=> parent[x] # Month)
                BY <3>3, <3>7, <3>8 DEF CarriedDown
            <4>2. Typed(x)' = {}
                BY <1>1, <4>1 DEF Typed, Above, FolderType
            <4>3. results'[m].type = IF mode = "purchase" THEN PurchaseFileType(x)
                                     ELSE IF parent[x] = Month THEN RootFileType(x) ELSE "unknown"
                BY <3>6, <3>8, <4>1 DEF TypeOf
            <4>4. FoundAsNamed(x)'
                BY <1>1, <3>4, <3>5, <4>2, <4>3 DEF FoundAsNamed
            <4> QED
                BY <3>2, <3>4, <4>4
        <3>9. CASE Top.forced # "none"
            <4>1. PICK o \in Typed(x) : /\ Typed(x) \cap Above(o) = {o}
                                        /\ FolderType(o) = Top.forced /\ Top.forced # "ignore"
                BY <3>3, <3>7, <3>9 DEF CarriedDown
            <4>2. Outermost(x) = o
                BY <1>1, <4>1, OutermostIs
            <4>3. /\ Typed(x)' = Typed(x) /\ Outermost(x)' = Outermost(x)
                  /\ FolderType(o)' = FolderType(o)
                BY <1>1 DEF Typed, Above, FolderType, Outermost
            <4>4. results'[m].type = Top.forced
                BY <3>6, <3>9 DEF TypeOf
            <4>5. FoundAsNamed(x)'
                BY <3>4, <3>5, <3>9, <4>1, <4>2, <4>3, <4>4 DEF FoundAsNamed
            <4> QED
                BY <3>2, <3>4, <4>5
        <3> QED
            BY <3>8, <3>9
    <2> QED
        BY <2>2, <2>3
<1> QED
    BY <1>1, <1>6, <1>11, <1>12 DEF WalkInv

\* A folder that is entered is replaced by what it holds: over a file, by one
\* item, which inherits what the folder says.
LEMMA EnterFolderPreserves ==
    ASSUME WalkInv, NEW x \in Top.items, EnterFolder(x)
    PROVE  WalkInv'
<1> DEFINE n == Len(stack)
           m == Len(stack) + 1
           type == IF Top.forced # "none" THEN Top.forced ELSE FolderType(x)
           frame == [forced |-> type, nested |-> TRUE, items |-> Children(x)]
<1>1. /\ WalkTypeOK /\ IsTree(parent) /\ walk = "walking" /\ x \in Folders
      /\ Top.forced # "none" \/ FolderType(x) # "ignore"
      /\ stack' = Append(Left(x), frame)
      /\ UNCHANGED <<parent, walk, mode, results, moved>>
    BY DEF EnterFolder, WalkInv, WalkTypeOK
<1>2. /\ n \in DOMAIN stack /\ x \in DOMAIN parent
      /\ Left(x) \in Seq(Frame(DOMAIN parent)) /\ Len(Left(x)) = n
      /\ DOMAIN Left(x) = DOMAIN stack
      /\ \A k \in DOMAIN stack : /\ Left(x)[k].forced = stack[k].forced
                                 /\ Left(x)[k].nested = stack[k].nested
      /\ \A z : /\ Pending(parent, Left(x), z) = Waiting(z) \ {<<n, x>>}
                /\ x \in Above(z) <=> <<n, x>> \in Waiting(z)
    BY <1>1, TakingLeaves
<1>3. stack[n] \in Frame(DOMAIN parent) /\ Top = stack[n] /\ x # Month
    BY <1>1, <1>2 DEF WalkTypeOK, Top, IsTree
<1>4. frame \in Frame(DOMAIN parent) /\ frame.items = Children(x)
    <2>1. type \in Forces
        BY <1>1, <1>3 DEF Frame, Forces, FolderType
    <2> QED
        BY <2>1 DEF Frame, Children
<1> HIDE DEF frame
<1>5. /\ m \notin DOMAIN stack /\ DOMAIN stack' = DOMAIN stack \cup {m} /\ stack'[m] = frame
      /\ \A k \in DOMAIN stack : stack'[k] = Left(x)[k]
      /\ stack' \in Seq(Frame(DOMAIN parent)) /\ stack' # <<>>
    <2> DEFINE mid == Left(x)
    <2>1. mid \in Seq(Frame(DOMAIN parent)) /\ Len(mid) = n /\ DOMAIN mid = DOMAIN stack
          /\ stack' = Append(mid, frame)
        BY <1>1, <1>2
    <2> HIDE DEF mid
    <2>2. /\ m \notin DOMAIN stack /\ DOMAIN stack' = DOMAIN stack \cup {m} /\ stack'[m] = frame
          /\ \A k \in DOMAIN stack : stack'[k] = mid[k]
          /\ stack' \in Seq(Frame(DOMAIN parent)) /\ stack' # <<>>
        BY <1>4, <2>1
    <2> QED
        BY <2>2 DEF mid
<1>6. WalkTypeOK'
    BY <1>1, <1>5 DEF WalkTypeOK
<1>7. \A z : Waiting(z)' = (Waiting(z) \ {<<n, x>>}) \cup {<<m, c>> : c \in Children(x) \cap Above(z)}
    <2> TAKE z
    <2> DEFINE mid == Left(x)
    <2>1. mid \in Seq(Frame(DOMAIN parent)) /\ Len(mid) = n /\ stack' = Append(mid, frame)
        BY <1>1, <1>2
    <2>2. Pending(parent, mid, z) = Waiting(z) \ {<<n, x>>}
        BY <1>2
    <2> HIDE DEF mid
    <2>3. Pending(parent, Append(mid, frame), z)
              = Pending(parent, mid, z) \cup {<<Len(mid) + 1, c>> : c \in frame.items \cap UpFrom(parent, z)}
        BY <1>4, <2>1, PendingAfterEntering
    <2> QED
        BY <1>1, <1>4, <2>1, <2>2, <2>3 DEF Waiting, Above
<1> HIDE DEF n, m, type
<1>8. \A z : Found(z)' = Found(z)
    BY <1>1 DEF Found
<1>9. ASSUME NEW z, x \notin Above(z) PROVE Waiting(z)' = Waiting(z)
    <2>1. Children(x) \cap Above(z) = {}
        BY <1>1, <1>9, OneChildIsListed
    <2>2. <<n, x>> \notin Waiting(z)
        BY <1>2, <1>9
    <2> QED
        BY <1>7, <2>1, <2>2
<1>10. ASSUME NEW z, x \in Above(z), x # z
       PROVE  \E c \in Above(z) : /\ c \in DOMAIN parent /\ parent[c] = x
                                  /\ Waiting(z)' = (Waiting(z) \ {<<n, x>>}) \cup {<<m, c>>}
    <2>1. PICK c \in Above(z) : c \in DOMAIN parent /\ parent[c] = x /\ Children(x) \cap Above(z) = {c}
        BY <1>1, <1>10, OneChildIsListed
    <2>2. {<<m, d>> : d \in Children(x) \cap Above(z)} = {<<m, c>>}
        BY <2>1
    <2> QED
        BY <1>7, <2>1, <2>2
<1>11. ASSUME NEW z \in Folders \cup Files PROVE WaysAreFew(z)'
    <2>1. WaysAreFew(z)
        BY <1>1 DEF WalkInv
    <2>2. IsFiniteSet(Waiting(z)) /\ Cardinality(Waiting(z)) \in Nat
        BY <1>1, WaitingIsFinite
    <2>3. IsFiniteSet(Found(z)) /\ Cardinality(Found(z)) \in Nat
        BY <1>1, FoundIsFinite
    <2>4. Cardinality(Waiting(z)') <= Cardinality(Waiting(z)) /\ Cardinality(Waiting(z)') \in Int
        <3>1. CASE x \notin Above(z)
            BY <1>9, <2>2, <3>1
        <3>2. CASE x \in Above(z)
            <4> DEFINE rest == Waiting(z) \ {<<n, x>>}
            <4>1. IsFiniteSet(rest) /\ Cardinality(rest) = Cardinality(Waiting(z)) - 1
                BY <1>2, <2>2, <3>2, FS_RemoveElement
            <4>2. \A e : Cardinality(rest \cup {e}) \in {Cardinality(rest), Cardinality(rest) + 1}
                BY <4>1, FS_AddElement
            <4>3. Waiting(z)' = rest \/ \E e : Waiting(z)' = rest \cup {e}
                <5>1. CASE x = z
                    <6>1. Children(x) \cap Above(z) = {}
                        BY <1>1, <5>1, OneChildIsListed
                    <6> QED
                        BY <1>7, <6>1
                <5>2. CASE x # z
                    BY <1>10, <3>2, <5>2
                <5> QED
                    BY <5>1, <5>2
            <4> HIDE DEF rest
            <4>4. Cardinality(Waiting(z)') \in {Cardinality(rest), Cardinality(rest) + 1}
                <5>1. CASE Waiting(z)' = rest
                    BY <5>1
                <5>2. CASE \E e : Waiting(z)' = rest \cup {e}
                    <6>1. PICK e : Waiting(z)' = rest \cup {e}
                        BY <5>2
                    <6>2. Cardinality(Waiting(z)') = Cardinality(rest \cup {e})
                        BY <6>1, Zenon
                    <6> QED
                        BY <4>2, <6>2, Zenon
                <5> QED
                    BY <4>3, <5>1, <5>2
            <4> QED
                BY <2>2, <4>1, <4>4
        <3> QED
            BY <3>1, <3>2
    <2>5. Cardinality(Found(z)') = Cardinality(Found(z)) /\ 2^Len(moved') = 2^Len(moved)
        BY <1>1, <1>8
    <2>6. Len(moved) \in Nat
        BY <1>1 DEF WalkTypeOK
    <2>7. 2^Len(moved) \in Nat
        BY <2>6, PowersDouble
    <2> QED
        BY <2>1, <2>2, <2>3, <2>4, <2>5, <2>7 DEF WaysAreFew
<1>12. ASSUME NEW f \in Files PROVE OnItsWay(f)'
    <2>1. OnItsWay(f) /\ f # x
        BY <1>1, WalkConstants DEF WalkInv
    <2>2. CASE x \notin Above(f)
        <3>1. Waiting(f)' = Waiting(f) /\ Found(f)' = Found(f)
            BY <1>8, <1>9, <2>2
        <3>2. \A k, y : <<k, y>> \in Waiting(f) =>
                  /\ k \in DOMAIN stack'
                  /\ stack'[k].forced = stack[k].forced /\ stack'[k].nested = stack[k].nested
            BY <1>2, <1>5, PendingPairs DEF Waiting
        <3>3. \A i \in Found(f) : results'[i] = results[i]
            BY <1>1
        <3> QED
            BY <1>1, <2>1, <3>1, <3>2, <3>3, FileIsLeftAlone
    <2>3. CASE x \in Above(f)
        <3> SUFFICES ASSUME Stayed(f)'
                     PROVE  /\ Month \in Above(f) /\ Found(f)' = {}
                            /\ \E k \in DOMAIN stack', y \in Above(f) :
                                   Waiting(f)' = {<<k, y>>} /\ CarriedDown(stack[k], y)'
            BY <1>1 DEF OnItsWay, Above
        <3>1. Stayed(f)
            BY <1>1 DEF Stayed, Above
        <3>2. /\ Month \in Above(f) /\ Found(f) = {}
              /\ \E k \in DOMAIN stack, y \in Above(f) :
                     Waiting(f) = {<<k, y>>} /\ CarriedDown(stack[k], y)
            BY <1>2, <2>1, <2>3, <3>1 DEF OnItsWay
        <3>3. Waiting(f) = {<<n, x>>} /\ CarriedDown(Top, x)
            BY <1>2, <1>3, <2>3, <3>2
        <3>4. PICK c \in Above(f) : /\ c \in DOMAIN parent /\ parent[c] = x
                                    /\ Waiting(f)' = (Waiting(f) \ {<<n, x>>}) \cup {<<m, c>>}
            BY <1>10, <2>1, <2>3
        <3>5. Waiting(f)' = {<<m, c>>} /\ m \in DOMAIN stack'
            BY <1>5, <3>3, <3>4
        <3>6. /\ stack'[m].forced = type /\ stack'[m].nested = TRUE
            BY <1>5 DEF frame
        <3>7. /\ Typed(parent[x]) \subseteq Typed(x) /\ x \notin Above(parent[x])
              /\ \A y \in Typed(x) : y \in Typed(parent[x]) \/ y = x
              /\ x \in Typed(x) <=> FolderType(x) # "none"
            BY <1>1, <1>2, TypedIsInherited
        <3>8. /\ type = "none" => Typed(x) = {}
              /\ type # "none" => /\ type # "ignore"
                                  /\ \E o \in Typed(x) : Typed(x) \cap Above(o) = {o} /\ FolderType(o) = type
            <4>1. CASE Top.forced # "none"
                <5>1. type = Top.forced
                    BY <4>1 DEF type
                <5>2. PICK o \in Typed(parent[x]) : /\ Typed(parent[x]) \cap Above(o) = {o}
                                                    /\ FolderType(o) = type
                    BY <3>3, <4>1, <5>1 DEF CarriedDown
                <5>3. Above(o) \subseteq Above(parent[x])
                    BY <1>1, UpFromIsTransitive DEF Above, Typed, IsTree, Parented
                <5>4. o \in Typed(x) /\ Typed(x) \cap Above(o) = {o}
                    BY <3>7, <5>2, <5>3
                <5> QED
                    BY <3>3, <4>1, <5>1, <5>2, <5>4 DEF CarriedDown
            <4>2. CASE Top.forced = "none"
                <5>1. type = FolderType(x) /\ type # "ignore" /\ Typed(parent[x]) = {}
                    BY <1>1, <3>3, <4>2 DEF type, CarriedDown
                <5>2. ASSUME type # "none" PROVE Typed(x) = {x} /\ Typed(x) \cap Above(x) = {x}
                    <6>1. Typed(x) = {x}
                        BY <3>7, <5>1, <5>2
                    <6>2. x \in Above(x)
                        BY <1>1, UpFromIsClosed DEF Above, IsTree, Parented
                    <6> QED
                        BY <6>1, <6>2
                <5>3. ASSUME type = "none" PROVE Typed(x) = {}
                    BY <3>7, <5>1, <5>3
                <5> QED
                    BY <5>1, <5>2, <5>3
            <4> QED
                BY <4>1, <4>2
        <3>9. /\ \A z : Above(z)' = Above(z) /\ Typed(z)' = Typed(z) /\ FolderType(z)' = FolderType(z)
              /\ parent'[c] = x
            BY <1>1, <3>4 DEF Above, Typed, FolderType
        <3>10. ASSUME NEW k, k = m PROVE CarriedDown(stack[k], c)'
            BY <1>3, <3>6, <3>8, <3>9, <3>10 DEF CarriedDown
        <3> QED
            BY <1>8, <3>2, <3>4, <3>5, <3>10
    <2> QED
        BY <2>2, <2>3
<1> QED
    BY <1>1, <1>6, <1>11, <1>12 DEF WalkInv

\* A working folder is passed over, with all that is below it.
LEMMA IgnoreFolderPreserves ==
    ASSUME WalkInv, NEW x \in Top.items, IgnoreFolder(x)
    PROVE  WalkInv'
<1> DEFINE n == Len(stack)
<1>1. /\ WalkTypeOK /\ IsTree(parent) /\ walk = "walking" /\ x \in Folders
      /\ Top.forced = "none" /\ FolderType(x) = "ignore"
      /\ stack' = Left(x)
      /\ UNCHANGED <<parent, walk, mode, results, moved>>
    BY DEF IgnoreFolder, WalkInv, WalkTypeOK
<1>2. /\ n \in DOMAIN stack /\ x \in DOMAIN parent
      /\ Left(x) \in Seq(Frame(DOMAIN parent)) /\ Left(x) # <<>>
      /\ DOMAIN Left(x) = DOMAIN stack
      /\ \A k \in DOMAIN stack : /\ Left(x)[k].forced = stack[k].forced
                                 /\ Left(x)[k].nested = stack[k].nested
      /\ \A z : /\ Pending(parent, Left(x), z) = Waiting(z) \ {<<n, x>>}
                /\ x \in Above(z) <=> <<n, x>> \in Waiting(z)
    BY <1>1, TakingLeaves
<1> HIDE DEF n
<1>3. WalkTypeOK'
    BY <1>1, <1>2 DEF WalkTypeOK
<1>4. \A z : Waiting(z)' = Waiting(z) \ {<<n, x>>} /\ Found(z)' = Found(z)
    BY <1>1, <1>2 DEF Waiting, Found
<1>5. ASSUME NEW z \in Folders \cup Files PROVE WaysAreFew(z)'
    <2>1. WaysAreFew(z)
        BY <1>1 DEF WalkInv
    <2>2. IsFiniteSet(Waiting(z)) /\ Cardinality(Waiting(z)) \in Nat
        BY <1>1, WaitingIsFinite
    <2>3. IsFiniteSet(Found(z)) /\ Cardinality(Found(z)) \in Nat
        BY <1>1, FoundIsFinite
    <2>4. Cardinality(Waiting(z)') <= Cardinality(Waiting(z)) /\ Cardinality(Waiting(z)') \in Nat
        <3>1. Waiting(z)' \subseteq Waiting(z)
            BY <1>4
        <3>2. IsFiniteSet(Waiting(z)') /\ Cardinality(Waiting(z)') <= Cardinality(Waiting(z))
            BY <2>2, <3>1, FS_Subset
        <3> QED
            BY <3>2, FS_CardinalityType
    <2>5. 2^Len(moved) \in Nat
        <3>1. Len(moved) \in Nat
            BY <1>1 DEF WalkTypeOK
        <3> QED
            BY <3>1, PowersDouble
    <2> QED
        BY <1>1, <1>4, <2>1, <2>2, <2>3, <2>4, <2>5 DEF WaysAreFew
<1>6. ASSUME NEW f \in Files PROVE OnItsWay(f)'
    <2>1. OnItsWay(f)
        BY <1>1 DEF WalkInv
    <2>2. CASE x \notin Above(f)
        <3>1. Waiting(f)' = Waiting(f) /\ Found(f)' = Found(f)
            BY <1>2, <1>4, <2>2
        <3>2. \A k, y : <<k, y>> \in Waiting(f) =>
                  /\ k \in DOMAIN stack'
                  /\ stack'[k].forced = stack[k].forced /\ stack'[k].nested = stack[k].nested
            BY <1>1, <1>2, PendingPairs DEF Waiting
        <3>3. \A i \in Found(f) : results'[i] = results[i]
            BY <1>1
        <3> QED
            BY <1>1, <2>1, <3>1, <3>2, <3>3, FileIsLeftAlone
    <2>3. CASE x \in Above(f)
        <3> SUFFICES ASSUME Stayed(f)'
                     PROVE  Month \in Above(f) /\ Waiting(f)' = {} /\ FoundAsNamed(f)'
            BY <1>1 DEF OnItsWay, Above
        <3>1. Stayed(f)
            BY <1>1 DEF Stayed, Above
        <3>2. /\ Month \in Above(f) /\ Found(f) = {}
              /\ \E k \in DOMAIN stack, y \in Above(f) :
                     Waiting(f) = {<<k, y>>} /\ CarriedDown(stack[k], y)
            BY <1>2, <2>1, <2>3, <3>1 DEF OnItsWay
        <3>3. Waiting(f) = {<<n, x>>} /\ CarriedDown(Top, x)
            BY <1>2, <2>3, <3>2 DEF Top, n
        <3>4. Waiting(f)' = {} /\ Found(f)' = {}
            BY <1>4, <3>2, <3>3
        <3>5. Typed(x) = {x}
            <4>1. Typed(parent[x]) = {}
                BY <1>1, <3>3 DEF CarriedDown
            <4> QED
                BY <1>1, <1>2, <4>1, TypedIsInherited
        <3>6. x \in Typed(f) /\ Typed(f) \cap Above(x) = {x}
            <4>1. Above(x) \subseteq Above(f)
                BY <1>1, <2>3, UpFromIsTransitive DEF Above, IsTree, Parented
            <4>2. Typed(f) \cap Above(x) = Typed(x)
                BY <4>1 DEF Typed
            <4> QED
                BY <3>5, <4>2
        <3>7. Outermost(f) = x
            BY <1>1, <3>6, OutermostIs
        <3>8. /\ Typed(f)' = Typed(f) /\ Outermost(f)' = Outermost(f)
              /\ FolderType(x)' = FolderType(x)
            BY <1>1 DEF Typed, Above, FolderType, Outermost
        <3>9. FoundAsNamed(f)'
            BY <1>1, <3>4, <3>6, <3>7, <3>8 DEF FoundAsNamed
        <3> QED
            BY <3>2, <3>4, <3>9
    <2> QED
        BY <2>2, <2>3
<1> QED
    BY <1>1, <1>3, <1>5, <1>6 DEF WalkInv

\* A folder with nothing left in it is left.
LEMMA LeaveFolderPreserves ==
    ASSUME WalkInv, LeaveFolder
    PROVE  WalkInv'
<1> DEFINE n == Len(stack)
<1>1. /\ WalkTypeOK /\ IsTree(parent) /\ walk = "walking" /\ stack[n].items = {}
      /\ stack' = SubSeq(stack, 1, n - 1)
      /\ walk' = IF n = 1 THEN "done" ELSE "walking"
      /\ UNCHANGED <<parent, mode, results, moved>>
    BY DEF LeaveFolder, WalkInv, WalkTypeOK, Top
<1>2. stack \in Seq(Frame(DOMAIN parent)) /\ stack # <<>> /\ n \in Nat \ {0}
    BY <1>1 DEF WalkTypeOK
<1>3. /\ stack' \in Seq(Frame(DOMAIN parent)) /\ Len(stack') = n - 1
      /\ \A k \in 1..(n - 1) : k \in DOMAIN stack /\ stack'[k] = stack[k]
      /\ \A z : Pending(parent, stack', z) = Pending(parent, stack, z)
    BY <1>1, <1>2, PendingAfterLeaving
<1>4. WalkTypeOK'
    <2>1. n = 1 <=> stack' = <<>>
        BY <1>2, <1>3
    <2> QED
        BY <1>1, <1>3, <2>1 DEF WalkTypeOK
<1>5. \A z : Waiting(z)' = Waiting(z) /\ Found(z)' = Found(z)
    BY <1>1, <1>3 DEF Waiting, Found
<1>6. ASSUME NEW z \in Folders \cup Files PROVE WaysAreFew(z)'
    BY <1>1, <1>5 DEF WaysAreFew, WalkInv
<1>7. ASSUME NEW f \in Files PROVE OnItsWay(f)'
    <2>1. OnItsWay(f)
        BY <1>1 DEF WalkInv
    <2>2. \A k, y : <<k, y>> \in Waiting(f) =>
              /\ k \in DOMAIN stack'
              /\ stack'[k].forced = stack[k].forced /\ stack'[k].nested = stack[k].nested
        <3> TAKE k, y
        <3> HAVE <<k, y>> \in Waiting(f)
        <3>1. k \in DOMAIN stack'
            <4>1. Waiting(f)' = Waiting(f)
                BY <1>5
            <4> QED
                BY <4>1, PendingPairs DEF Waiting
        <3>2. stack'[k] = stack[k]
            BY <1>2, <1>3, <3>1
        <3> QED
            BY <3>1, <3>2
    <2>3. \A i \in Found(f) : results'[i] = results[i]
        BY <1>1
    <2> QED
        BY <1>1, <1>5, <2>1, <2>2, <2>3, FileIsLeftAlone
<1> QED
    BY <1>1, <1>4, <1>6, <1>7 DEF WalkInv

\* A listing that fails leaves nothing.
LEMMA FailListingPreserves ==
    ASSUME WalkInv, FailListing
    PROVE  WalkInv'
<1>1. WalkTypeOK /\ walk' = "failed" /\ stack' = <<>> /\ results' = <<>> /\ UNCHANGED <<parent, mode, moved>>
    BY DEF FailListing, WalkInv
<1>2. WalkTypeOK'
    BY <1>1 DEF WalkTypeOK
<1> QED
    BY <1>1, <1>2 DEF WalkInv

\* A move leaves a file that nothing was moved over where it was, and adds to
\* the ways to the others those to the folder moved to.
LEMMA MovePreserves ==
    ASSUME WalkInv, NEW x \in DOMAIN parent, NEW B \in Folders, Move(x, B)
    PROVE  WalkInv'
<1>1. /\ WalkTypeOK /\ IsTree(parent) /\ Parented(parent) /\ walk = "walking"
      /\ x \notin UpFrom(parent, B)
      /\ parent' = [parent EXCEPT ![x] = B] /\ moved' = Append(moved, x)
      /\ UNCHANGED <<walk, mode, stack, results>>
    BY DEF Move, WalkInv, WalkTypeOK, Above, IsTree, Parented
<1>2. /\ parent' \in [DOMAIN parent -> Folders] /\ DOMAIN parent' = DOMAIN parent /\ parent'[x] = B
      /\ \A z \in DOMAIN parent : z # x => parent'[z] = parent[z]
    BY <1>1 DEF Parented
<1>3. IsTree(parent')
    <2> DEFINE after == parent'
    <2>1. /\ after \in [DOMAIN parent -> Folders] /\ after[x] = B
          /\ \A z \in DOMAIN parent : z # x => after[z] = parent[z]
          /\ IsTree(parent) /\ x \notin UpFrom(parent, B)
        BY <1>1, <1>2
    <2> HIDE DEF after
    <2>2. IsTree(after)
        BY <2>1, MovesKeepTheTree
    <2> QED
        BY <2>2 DEF after
<1>4. \A z : /\ UpFrom(parent', z) \subseteq UpFrom(parent, z) \cup UpFrom(parent, B)
             /\ x \notin UpFrom(parent', z) => UpFrom(parent', z) = UpFrom(parent, z)
    <2> TAKE z
    <2> DEFINE after == parent'
    <2>1. /\ after \in [DOMAIN parent -> Folders] /\ after[x] = B
          /\ \A y \in DOMAIN parent : y # x => after[y] = parent[y]
          /\ Parented(parent)
        BY <1>1, <1>2
    <2> HIDE DEF after
    <2>2. /\ UpFrom(after, z) \subseteq UpFrom(parent, z) \cup UpFrom(parent, B)
          /\ x \notin UpFrom(after, z) => UpFrom(after, z) = UpFrom(parent, z)
        BY <2>1, MovesAreLocal
    <2> QED
        BY <2>2 DEF after
<1>5. /\ Len(moved) \in Nat /\ Len(moved') = Len(moved) + 1 /\ moved' \in Seq(DOMAIN parent)
      /\ x = moved'[Len(moved) + 1] /\ Len(moved) + 1 \in DOMAIN moved'
      /\ \A i \in DOMAIN moved : i \in DOMAIN moved' /\ moved'[i] = moved[i]
    BY <1>1 DEF WalkTypeOK
<1>6. WalkTypeOK'
    BY <1>1, <1>2, <1>3, <1>5 DEF WalkTypeOK
<1>7. ASSUME NEW z \in Folders \cup Files PROVE WaysAreFew(z)'
    <2>1. WaysAreFew(z) /\ WaysAreFew(B)
        BY <1>1 DEF WalkInv
    <2>2. /\ IsFiniteSet(Waiting(z)) /\ Cardinality(Waiting(z)) \in Nat
          /\ IsFiniteSet(Waiting(B)) /\ Cardinality(Waiting(B)) \in Nat
        BY <1>1, WaitingIsFinite
    <2>3. Cardinality(Found(z)) \in Nat /\ Cardinality(Found(B)) \in Nat /\ Found(z)' = Found(z)
        BY <1>1, FoundIsFinite DEF Found
    <2>4. Waiting(z)' \subseteq Waiting(z) \cup Waiting(B)
        <3>1. ASSUME NEW e \in Waiting(z)' PROVE e \in Waiting(z) \cup Waiting(B)
            <4>1. /\ e = <<e[1], e[2]>> /\ e[1] \in DOMAIN stack
                  /\ e[2] \in UpFrom(parent', z) /\ e[2] \in stack[e[1]].items
                BY <1>1, <3>1, PendingPairs DEF Waiting
            <4>2. e[2] \in UpFrom(parent, z) \/ e[2] \in UpFrom(parent, B)
                BY <1>4, <4>1
            <4>3. <<e[1], e[2]>> \in Pending(parent, stack, z) \/ <<e[1], e[2]>> \in Pending(parent, stack, B)
                BY <4>1, <4>2, PendingPairs
            <4> QED
                BY <4>1, <4>3 DEF Waiting
        <3> QED
            BY <3>1
    <2>5. /\ IsFiniteSet(Waiting(z) \cup Waiting(B))
          /\ Cardinality(Waiting(z) \cup Waiting(B)) <= Cardinality(Waiting(z)) + Cardinality(Waiting(B))
        <3>1. /\ IsFiniteSet(Waiting(z) \cup Waiting(B))
              /\ Cardinality(Waiting(z) \cup Waiting(B))
                     = Cardinality(Waiting(z)) + Cardinality(Waiting(B)) - Cardinality(Waiting(z) \cap Waiting(B))
            BY <2>2, FS_Union
        <3>2. IsFiniteSet(Waiting(z) \cap Waiting(B))
            BY <2>2, FS_Intersection
        <3>3. Cardinality(Waiting(z) \cap Waiting(B)) \in Nat
            BY <3>2, FS_CardinalityType
        <3> QED
            BY <2>2, <3>1, <3>3
    <2>6. /\ Cardinality(Waiting(z)') <= Cardinality(Waiting(z) \cup Waiting(B))
          /\ Cardinality(Waiting(z)') \in Nat /\ Cardinality(Waiting(z) \cup Waiting(B)) \in Nat
        <3>1. /\ IsFiniteSet(Waiting(z)')
              /\ Cardinality(Waiting(z)') <= Cardinality(Waiting(z) \cup Waiting(B))
            BY <2>4, <2>5, FS_Subset
        <3> QED
            BY <2>5, <3>1, FS_CardinalityType
    <2>7. 2^Len(moved) \in Nat /\ 2^Len(moved') = 2^Len(moved) + 2^Len(moved)
        BY <1>5, PowersDouble
    <2> QED
        BY <2>1, <2>2, <2>3, <2>5, <2>6, <2>7 DEF WaysAreFew
<1>8. ASSUME NEW f \in Files, Stayed(f)' PROVE OnItsWay(f)'
    <2>1. x \notin UpFrom(parent', f)
        BY <1>5, <1>8 DEF Stayed, Above
    <2>2. UpFrom(parent', f) = UpFrom(parent, f) /\ x \notin UpFrom(parent, f)
        BY <1>4, <2>1
    <2>3. ASSUME NEW z \in UpFrom(parent, f) PROVE UpFrom(parent', z) = UpFrom(parent, z)
        <3>1. UpFrom(parent, z) \subseteq UpFrom(parent, f)
            BY <1>1, UpFromIsTransitive
        <3>2. x \notin UpFrom(parent, z)
            BY <2>2, <3>1
        <3> DEFINE after == parent'
        <3>3. /\ after \in [DOMAIN parent -> Folders] /\ after[x] = B
              /\ \A y \in DOMAIN parent : y # x => after[y] = parent[y]
              /\ Parented(parent)
            BY <1>1, <1>2
        <3> HIDE DEF after
        <3>4. UpFrom(after, z) = UpFrom(parent, z)
            BY <3>2, <3>3, MovesAreLocal
        <3> QED
            BY <3>4 DEF after
    <2>4. Above(f)' = Above(f) /\ \A z \in Above(f) : Above(z)' = Above(z) /\ Typed(z)' = Typed(z)
        BY <1>1, <2>2, <2>3 DEF Above, Typed, FolderType
    <2>5. \A z \in Above(f) : z \in DOMAIN parent => parent'[z] = parent[z] /\ parent[z] \in Above(f)
        BY <1>1, <1>2, <2>2, UpFromIsClosed DEF Above
    <2>6. f \in Above(f)
        BY <1>1, UpFromIsClosed DEF Above
    <2>7. OnItsWay(f) /\ Stayed(f)
        BY <1>1, <1>5, <1>8, <2>4 DEF WalkInv, Stayed
    <2>8. Waiting(f)' = Waiting(f) /\ Found(f)' = Found(f)
        BY <1>1, <2>2 DEF Waiting, Pending, Found
    <2>9. Typed(f)' = Typed(f) /\ \A z : FolderType(z)' = FolderType(z)
        BY <1>1, <2>4, <2>6 DEF FolderType
    <2>10. ASSUME Month \in Above(f) PROVE Outermost(f)' = Outermost(f) /\ parent'[f] = parent[f]
        <3>1. \A y : y \in Typed(f) /\ Typed(f) \cap Above(y) = {y}
                  <=> y \in Typed(f)' /\ Typed(f)' \cap Above(y)' = {y}
            BY <2>4, <2>9 DEF Typed
        <3>2. Outermost(f)' = Outermost(f)
            <4> DEFINE Old(y) == y \in Typed(f) /\ Typed(f) \cap Above(y) = {y}
                       New(y) == y \in Typed(f)' /\ Typed(f)' \cap Above(y)' = {y}
            <4>1. Outermost(f) = (CHOOSE y : Old(y)) /\ Outermost(f)' = (CHOOSE y : New(y))
                BY DEF Outermost
            <4>2. \A y : Old(y) <=> New(y)
                BY <3>1
            <4> HIDE DEF Old, New
            <4>3. (CHOOSE y : Old(y)) = (CHOOSE y : New(y))
                BY <4>2
            <4> QED
                BY <4>1, <4>3
        <3>3. f \in DOMAIN parent
            <4>1. f # Month
                BY WalkConstants
            <4>2. f \notin DOMAIN parent => UpFrom(parent, f) = {f}
                BY <1>1, UpFromAParent
            <4> QED
                BY <2>10, <4>1, <4>2 DEF Above
        <3> QED
            BY <2>5, <2>6, <3>2, <3>3
    <2>11. ASSUME FoundAsNamed(f), Month \in Above(f) PROVE FoundAsNamed(f)'
        BY <1>1, <2>8, <2>9, <2>10, <2>11 DEF FoundAsNamed
    <2>12. ASSUME NEW k \in DOMAIN stack, NEW y \in Above(f), Waiting(f) = {<<k, y>>},
                  CarriedDown(stack[k], y)
           PROVE  CarriedDown(stack[k], y)'
        <3>1. y \in DOMAIN parent
            <4>1. stack[k] \in Frame(DOMAIN parent)
                BY <1>1, <2>12 DEF WalkTypeOK
            <4>2. <<k, y>> \in Pending(parent, stack, f)
                BY <2>12 DEF Waiting
            <4>3. y \in stack[k].items
                BY <4>2, PendingPairs
            <4> QED
                BY <4>1, <4>3 DEF Frame
        <3>2. parent'[y] = parent[y] /\ parent[y] \in Above(f)
            BY <2>5, <3>1
        <3>3. Typed(parent[y])' = Typed(parent[y])
            BY <2>4, <3>2 DEF Typed, Above, FolderType
        <3>4. \A o \in Typed(parent[y]) : Above(o)' = Above(o)
            <4>1. Above(parent[y]) \subseteq Above(f)
                BY <1>1, <3>2, UpFromIsTransitive DEF Above
            <4> QED
                BY <2>4, <4>1 DEF Typed
        <3> QED
            BY <1>1, <2>9, <2>12, <3>2, <3>3, <3>4 DEF CarriedDown
    <2> QED
        BY <1>1, <2>4, <2>7, <2>8, <2>11, <2>12 DEF OnItsWay
<1>9. ASSUME NEW f \in Files PROVE OnItsWay(f)'
    BY <1>8 DEF OnItsWay
<1> QED
    BY <1>1, <1>6, <1>7, <1>9 DEF WalkInv

\* Every step preserves the invariant.
LEMMA WalkInvIsInductive == WalkInv /\ [WalkNext]_walkVars => WalkInv'
<1> SUFFICES ASSUME WalkInv, [WalkNext]_walkVars PROVE WalkInv'
    OBVIOUS
<1>1. ASSUME NEW kind, StartWalk(kind) PROVE WalkInv'
    BY <1>1, StartWalkPreserves
<1>2. ASSUME NEW x \in Top.items, TakeFile(x) PROVE WalkInv'
    BY <1>2, TakeFilePreserves
<1>3. ASSUME NEW x \in Top.items, EnterFolder(x) PROVE WalkInv'
    BY <1>3, EnterFolderPreserves
<1>4. ASSUME NEW x \in Top.items, IgnoreFolder(x) PROVE WalkInv'
    BY <1>4, IgnoreFolderPreserves
<1>5. CASE LeaveFolder
    BY <1>5, LeaveFolderPreserves
<1>6. CASE FailListing
    BY <1>6, FailListingPreserves
<1>7. ASSUME NEW x \in DOMAIN parent, NEW folder \in Folders, Move(x, folder) PROVE WalkInv'
    BY <1>7, MovePreserves
<1>8. CASE UNCHANGED walkVars
    <2>1. UNCHANGED <<parent, walk, mode, stack, results, moved>>
        BY <1>8 DEF walkVars
    <2>2. WalkTypeOK'
        BY <2>1 DEF WalkInv, WalkTypeOK
    <2>3. \A z : Waiting(z)' = Waiting(z) /\ Found(z)' = Found(z)
        BY <2>1 DEF Waiting, Found
    <2>4. ASSUME NEW z, WaysAreFew(z) PROVE WaysAreFew(z)'
        BY <2>1, <2>3, <2>4 DEF WaysAreFew
    <2>5. ASSUME NEW f \in Files, OnItsWay(f) PROVE OnItsWay(f)'
        <3>1. \A k, y : <<k, y>> \in Waiting(f) =>
                  /\ k \in DOMAIN stack'
                  /\ stack'[k].forced = stack[k].forced /\ stack'[k].nested = stack[k].nested
            BY <2>1, PendingPairs DEF Waiting
        <3> QED
            BY <2>1, <2>3, <2>5, <3>1, FileIsLeftAlone
    <2> QED
        BY <2>1, <2>2, <2>4, <2>5 DEF WalkInv
<1> QED
    BY <1>1, <1>2, <1>3, <1>4, <1>5, <1>6, <1>7, <1>8 DEF WalkNext

\* The invariant tells what a finished walk has found.
LEMMA WalkInvImplies == WalkInv => WalkFindsEveryFile
<1> SUFFICES ASSUME WalkInv, walk = "done", NEW f \in Files
             PROVE  /\ Cardinality(Found(f)) <= 2^Len(moved)
                    /\ Stayed(f) => IF Month \in Above(f) THEN FoundAsNamed(f) ELSE Found(f) = {}
    BY DEF WalkFindsEveryFile
<1>1. WalkTypeOK /\ stack = <<>> /\ WaysAreFew(f) /\ OnItsWay(f)
    BY DEF WalkInv, WalkTypeOK
<1>2. Waiting(f) = {}
    BY <1>1, PendingPairs DEF Waiting
<1>3. Cardinality(Waiting(f)) = 0
    BY <1>2, FS_EmptySet
<1>4. Cardinality(Found(f)) \in Nat
    BY <1>1, FoundIsFinite
<1>5. Cardinality(Found(f)) <= 2^Len(moved)
    BY <1>1, <1>3, <1>4 DEF WaysAreFew
<1>6. Stayed(f) => IF Month \in Above(f) THEN FoundAsNamed(f) ELSE Found(f) = {}
    BY <1>1, <1>2 DEF OnItsWay
<1> QED
    BY <1>5, <1>6

\* The listing of a month's folder (walk_and_classify, walk_and_classify_purchase)
\* finds every file that stays where it is exactly once, as the outermost named
\* folder over it says, whatever the client moves between two requests.
THEOREM WalksFindTheirFiles == WalkSpec => []WalkFindsEveryFile
<1>1. WalkInit => WalkInv
    BY WalkInitEstablishes
<1>2. WalkInv /\ [WalkNext]_walkVars => WalkInv'
    BY WalkInvIsInductive
<1>3. WalkInv => WalkFindsEveryFile
    BY WalkInvImplies
<1> QED
    BY <1>1, <1>2, <1>3, PTL DEF WalkSpec
===============================================================================
