--------------------------- MODULE StartupProofs ---------------------------
(* Theorems about Startup.tla, for any modes and any number of deployments *)
(* and failures.                                                           *)
EXTENDS Startup, TLAPS

(* The types that the arguments below need.                                *)
DeployTypes ==
  /\ runs \in 0..MaxRuns
  /\ receipt \in 0..runs
  /\ asOf \in 0..receipt

(* A run of the writer that is not over is the last one, and was asked     *)
(* for; once it has written, the file is its archive.                      *)
WriterInv ==
  writer.at \in {"opening", "writing", "written"} =>
    /\ writer.archive \in Archive
    /\ writer.archive \in requested
    /\ writer.archive.run = runs
    /\ receipt < runs
    /\ writer.at = "written" => file = writer.archive

(* An archive that is in the file was asked for, and is not older than the *)
(* last receipt.                                                           *)
FileInv == file \in Archive => file \in requested /\ receipt <= file.run

DeployInv ==
  /\ DeployTypes
  /\ WriterInv
  /\ FileInv
  /\ ReceiptIsTrue
  /\ RunsWhatWasDeployed

LEMMA DeployInvInit == Init => DeployInv
BY StartupAssumption
DEF Init, DeployInv, DeployTypes, WriterInv, FileInv, ReceiptIsTrue,
    RunsWhatWasDeployed, Exited, Absent, Archive

LEMMA WriterPreserves ==
  ASSUME DeployInv, WriterStep
  PROVE  DeployInv'
<1> USE StartupAssumption DEF DeployInv
<1>1. RunsWhatWasDeployed' /\ (asOf \in 0..receipt)'
  <2>1. daemon' = daemon /\ asOf' = asOf /\ requested \subseteq requested'
    BY DEF WriterStep, RunWriter, OpenOutput, WriteOutput, WriterFails,
           PrintReceipt
  <2>2. receipt' = receipt \/ (receipt' = runs /\ receipt < runs)
    BY DEF WriterStep, RunWriter, OpenOutput, WriteOutput, WriterFails,
           PrintReceipt, WriterInv
  <2>3. receipt' \in Nat /\ receipt <= receipt'
    BY <2>2 DEF DeployTypes
  <2> QED
    BY <2>1, <2>3 DEF RunsWhatWasDeployed, DeployTypes
<1>2. ASSUME NEW argument \in Argument, NEW configuration \in Configuration,
             RunWriter(argument, configuration)
      PROVE  DeployInv'
  <2> DEFINE archive == [run |-> runs + 1, configuration |-> configuration]
  <2>1. runs' = runs + 1 /\ runs' \in 0..MaxRuns /\ receipt' = receipt
        /\ file' = file
    BY <1>2 DEF RunWriter, DeployTypes
  <2>2. archive \in Archive
    BY <2>1 DEF Archive, DeployTypes
  <2>3. CASE writer' = Writing("opening", archive)
             /\ requested' = requested \cup {archive}
    BY <1>1, <2>1, <2>2, <2>3
    DEF DeployTypes, WriterInv, FileInv, ReceiptIsTrue, Writing, Exited
  <2>4. CASE writer' = Exited("error") /\ requested' = requested
    BY <1>1, <2>1, <2>4
    DEF DeployTypes, WriterInv, FileInv, ReceiptIsTrue, Exited
  <2> QED
    BY <1>2, <2>3, <2>4 DEF RunWriter
<1>3. ASSUME OpenOutput
      PROVE  DeployInv'
  <2>1. Truncated \notin Archive
    BY DEF Truncated, Archive
  <2> QED
    BY <1>1, <1>3, <2>1
    DEF OpenOutput, DeployTypes, WriterInv, FileInv, ReceiptIsTrue, Writing,
        Exited
<1>4. ASSUME WriteOutput
      PROVE  DeployInv'
  BY <1>1, <1>4
  DEF WriteOutput, DeployTypes, WriterInv, FileInv, ReceiptIsTrue, Writing,
      Exited
<1>5. ASSUME WriterFails
      PROVE  DeployInv'
  BY <1>1, <1>5
  DEF WriterFails, DeployTypes, WriterInv, FileInv, ReceiptIsTrue, Exited
<1>6. ASSUME PrintReceipt
      PROVE  DeployInv'
  BY <1>1, <1>6
  DEF PrintReceipt, DeployTypes, WriterInv, FileInv, ReceiptIsTrue, Exited
<1> QED
  BY <1>2, <1>3, <1>4, <1>5, <1>6 DEF WriterStep

LEMMA DaemonPreserves ==
  ASSUME DeployInv, DaemonStep
  PROVE  DeployInv'
<1> USE StartupAssumption DEF DeployInv
<1>1. UNCHANGED deployVars
  BY DEF DaemonStep, StartDaemon, LoadConfiguration, Bind, Serve, StopDaemon
<1>2. WriterInv' /\ FileInv' /\ ReceiptIsTrue'
  BY <1>1 DEF deployVars, WriterInv, FileInv, ReceiptIsTrue
<1>3. asOf' \in {asOf, receipt}
  BY DEF DaemonStep, StartDaemon, LoadConfiguration, Bind, Serve, StopDaemon
<1>4. DeployTypes'
  BY <1>1, <1>3 DEF deployVars, DeployTypes
<1>5. RunsWhatWasDeployed'
  <2>1. ASSUME NEW argument \in Argument, StartDaemon(argument)
        PROVE  RunsWhatWasDeployed'
    BY <2>1 DEF StartDaemon, RunsWhatWasDeployed, Exited
  <2>2. CASE LoadConfiguration
    <3>1. CASE file \in Archive
      <4>1. /\ file \in requested
            /\ file.run \in Nat
            /\ asOf <= file.run
        BY <3>1 DEF FileInv, DeployTypes, Archive
      <4> QED
        BY <1>1, <2>2, <3>1, <4>1
        DEF LoadConfiguration, RunsWhatWasDeployed, Starting, deployVars
    <3>2. CASE file \notin Archive
      BY <2>2, <3>2 DEF LoadConfiguration, RunsWhatWasDeployed, Exited
    <3> QED
      BY <3>1, <3>2
  <2>3. CASE Bind
    BY <1>1, <2>3 DEF Bind, RunsWhatWasDeployed, Bound, deployVars
  <2>4. CASE Serve
    <3>1. CASE daemon' = [daemon EXCEPT !.at = "serving"]
      BY <1>1, <2>4, <3>1 DEF Serve, RunsWhatWasDeployed, deployVars
    <3>2. CASE daemon' = Exited("error")
      BY <3>2 DEF RunsWhatWasDeployed, Exited
    <3> QED
      BY <2>4, <3>1, <3>2 DEF Serve
  <2>5. CASE StopDaemon
    BY <2>5 DEF StopDaemon, RunsWhatWasDeployed, Exited
  <2> QED
    BY <2>1, <2>2, <2>3, <2>4, <2>5 DEF DaemonStep
<1> QED
  BY <1>2, <1>4, <1>5

LEMMA DeployInvStep == DeployInv /\ [Next]_vars => DeployInv'
<1>1. ASSUME DeployInv, UNCHANGED vars
      PROVE  DeployInv'
  BY <1>1
  DEF DeployInv, DeployTypes, WriterInv, FileInv, ReceiptIsTrue,
      RunsWhatWasDeployed, vars, deployVars
<1> QED
  BY WriterPreserves, DaemonPreserves, <1>1 DEF Next

THEOREM DeployInvCorrect == Spec => []DeployInv
BY DeployInvInit, DeployInvStep, PTL DEF Spec

(* However many deployments there are, and wherever each is cut short, a   *)
(* daemon that is started at any moment runs with an archive that was      *)
(* asked for and that is no older than the last receipt before its start   *)
(* (src/src/configuration.rs:57, src/src/daemon_command.rs:88).            *)
THEOREM RunsWhatWasDeployedCorrect == Spec => []RunsWhatWasDeployed
<1>1. DeployInv => RunsWhatWasDeployed
  BY DEF DeployInv
<1> QED
  BY DeployInvCorrect, <1>1, PTL

(* A receipt is printed for the archive that is in the file, and stays     *)
(* true until the next run of the writer                                   *)
(* (src/src/bin/repository-ledger-write-configuration.rs:17).              *)
THEOREM ReceiptIsTrueCorrect == Spec => []ReceiptIsTrue
<1>1. DeployInv => ReceiptIsTrue
  BY DEF DeployInv
<1> QED
  BY DeployInvCorrect, <1>1, PTL

(* The archives, the modes and the counters keep their types; a daemon has *)
(* bound its working socket with the mode of its own archive               *)
(* (src/src/schema/daemon.rs:162).                                         *)
THEOREM StartupTypeCorrect == Spec => []TypeOK
<1> DEFINE
  WriterTyped ==
    /\ file \in {Absent, Truncated} \cup Archive
    /\ requested \subseteq Archive
    /\ writer \in {Exited("none"), Exited("success"), Exited("error")}
         \cup [at : {"opening", "writing", "written"}, archive : Archive]
  DaemonTyped ==
    /\ daemon \in {Exited("none"), Exited("error"), [at |-> "loading"]}
         \cup [at : {"configured"}, archive : Archive]
         \cup [at : {"bound", "serving"}, archive : Archive,
               working : Mode, meta : Mode]
    /\ daemon.at \in {"bound", "serving"} =>
         daemon.working = daemon.archive.configuration.socketMode
<1>1. Init => TypeOK
  BY StartupAssumption DEF Init, TypeOK, Exited
<1>2. DeployInv /\ TypeOK /\ [Next]_vars => TypeOK'
  <2> SUFFICES ASSUME DeployInv, TypeOK, [Next]_vars
               PROVE  TypeOK'
    OBVIOUS
  <2> USE StartupAssumption
  <2>1. CASE UNCHANGED vars
    BY <2>1 DEF vars, deployVars, TypeOK
  <2>2. CASE WriterStep
    <3>1. UNCHANGED <<daemon, asOf, failures>>
      BY <2>2 DEF WriterStep, RunWriter, OpenOutput, WriteOutput, WriterFails,
                  PrintReceipt
    <3>2. DeployTypes' /\ asOf \in 0..receipt'
      BY <2>2, <3>1, WriterPreserves DEF DeployInv, DeployTypes
    <3>3. writer.at \in {"opening", "writing", "written"} =>
            writer.archive \in Archive
      BY DEF DeployInv, WriterInv
    <3>4. WriterTyped'
      <4>1. ASSUME NEW argument \in Argument,
                   NEW configuration \in Configuration,
                   RunWriter(argument, configuration)
            PROVE  WriterTyped'
        <5>1. [run |-> runs + 1, configuration |-> configuration] \in Archive
          BY <4>1 DEF RunWriter, TypeOK, Archive
        <5> QED
          BY <4>1, <5>1 DEF RunWriter, TypeOK, Writing
      <4>2. CASE OpenOutput
        BY <3>3, <4>2 DEF OpenOutput, TypeOK, Writing
      <4>3. CASE WriteOutput
        BY <3>3, <4>3 DEF WriteOutput, TypeOK, Writing
      <4>4. CASE WriterFails \/ PrintReceipt
        BY <4>4 DEF WriterFails, PrintReceipt, TypeOK
      <4> QED
        BY <2>2, <4>1, <4>2, <4>3, <4>4 DEF WriterStep
    <3> QED
      BY <3>1, <3>2, <3>4 DEF TypeOK, DeployTypes
  <2>3. CASE DaemonStep
    <3>1. UNCHANGED deployVars
      BY <2>3 DEF DaemonStep, StartDaemon, LoadConfiguration, Bind, Serve,
                  StopDaemon
    <3>2. asOf' \in 0..receipt' /\ failures' \in 0..MaxFailures
      BY <2>3, <3>1
      DEF DaemonStep, StartDaemon, LoadConfiguration, Bind, Serve, StopDaemon,
          Failure, TypeOK, deployVars
    <3>3. DaemonTyped'
      <4>1. ASSUME NEW argument \in Argument, StartDaemon(argument)
            PROVE  DaemonTyped'
        BY <4>1 DEF StartDaemon, Exited
      <4>2. CASE LoadConfiguration
        BY <4>2 DEF LoadConfiguration, Starting, Exited
      <4>3. CASE Bind
        <5>1. /\ daemon.archive \in Archive
              /\ daemon.archive.configuration.socketMode \in Mode
          BY <4>3 DEF Bind, TypeOK, Exited, Archive, Configuration
        <5> QED
          BY <4>3, <5>1 DEF Bind, Bound
      <4>4. CASE Serve
        BY <4>4 DEF Serve, TypeOK, Exited
      <4>5. CASE StopDaemon
        BY <4>5 DEF StopDaemon, Exited
      <4> QED
        BY <2>3, <4>1, <4>2, <4>3, <4>4, <4>5 DEF DaemonStep
    <3> QED
      BY <3>1, <3>2, <3>3 DEF TypeOK, deployVars
  <2> QED
    BY <2>1, <2>2, <2>3 DEF Next
<1> QED
  BY <1>1, <1>2, DeployInvCorrect, PTL DEF Spec

============================================================================
