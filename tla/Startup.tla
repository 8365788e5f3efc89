------------------------------ MODULE Startup ------------------------------
(***************************************************************************)
(* From a deployment to a serving daemon: the configuration writer         *)
(* (src/src/bin/repository-ledger-write-configuration.rs), the file it     *)
(* writes (src/src/daemon_command.rs, src/src/configuration.rs) and the    *)
(* start of the generated shell (src/src/schema/daemon.rs).                *)
(*                                                                         *)
(* The writer truncates the file and then writes an archive of a few       *)
(* hundred bytes with one call, which happens or does not; a daemon that   *)
(* is started at any moment reads what is there.  Deployments do not       *)
(* overlap.  Nothing of this opens the store: see Delivery.tla.            *)
(***************************************************************************)
EXTENDS Naturals

CONSTANTS
  Mode,          \* socket modes
  OwnerOnly,     \* the mode 0600
  MaxRuns,       \* bound on the runs of the writer
  MaxFailures    \* bound on the failures of listeners and on crashes

ASSUME StartupAssumption ==
  /\ OwnerOnly \in Mode
  /\ MaxRuns \in Nat
  /\ MaxFailures \in Nat

VARIABLES
  file,        \* the configuration file
  writer,      \* the run of the writer in progress, or how the last ended
  runs,        \* runs of the writer so far
  requested,   \* history: the archives the writer was asked for
  receipt,     \* history: the last run that printed its receipt
  daemon,      \* how far the daemon has come, or how it ended
  asOf,        \* history: the receipt when the daemon was started
  failures     \* failures so far

deployVars == <<file, writer, runs, requested, receipt>>
vars == <<deployVars, daemon, asOf, failures>>

(* WireConfiguration, as far as the shell uses it.  The run tells one      *)
(* archive from another.                                                   *)
Configuration == [socketMode : Mode, metaSocketMode : Mode]
Archive == [run : 1..MaxRuns, configuration : Configuration]

Absent == [run |-> 0, content |-> "absent"]
Truncated == [run |-> 0, content |-> "truncated"]

(* ComponentArgument: inline NOTA or a .nota file that decodes as a        *)
(* request, any other text, or a signal file.                              *)
Argument == {"nota", "other", "signal"}

Writing(stage, archive) == [at |-> stage, archive |-> archive]
Exited(code) == [at |-> "exited", with |-> code]
Starting(stage, archive) == [at |-> stage, archive |-> archive]
(* The sockets the shell asks its listeners for.                           *)
Bound(stage, archive, working, meta) ==
  [at |-> stage, archive |-> archive, working |-> working, meta |-> meta]

TypeOK ==
  /\ file \in {Absent, Truncated} \cup Archive
  /\ writer \in {Exited("none"), Exited("success"), Exited("error")}
       \cup [at : {"opening", "writing", "written"}, archive : Archive]
  /\ runs \in 0..MaxRuns
  /\ requested \subseteq Archive
  /\ receipt \in 0..runs
  /\ daemon \in {Exited("none"), Exited("error"), [at |-> "loading"]}
       \cup [at : {"configured"}, archive : Archive]
       \cup [at : {"bound", "serving"}, archive : Archive, working : Mode,
             meta : Mode]
  /\ daemon.at \in {"bound", "serving"} =>
       daemon.working = daemon.archive.configuration.socketMode
  /\ asOf \in 0..receipt
  /\ failures \in 0..MaxFailures

Init ==
  /\ file = Absent
  /\ writer = Exited("none")
  /\ runs = 0
  /\ requested = {}
  /\ receipt = 0
  /\ daemon = Exited("none")
  /\ asOf = 0
  /\ failures = 0

Failure == failures < MaxFailures /\ failures' = failures + 1

----------------------------------------------------------------------------
(* The configuration writer.                                               *)

(* source_text and the decoding of the request.                            *)
RunWriter(argument, configuration) ==
  /\ writer.at = "exited"
  /\ runs < MaxRuns
  /\ runs' = runs + 1
  /\ LET archive == [run |-> runs + 1, configuration |-> configuration]
     IN  \/ /\ argument = "nota"
            /\ writer' = Writing("opening", archive)
            /\ requested' = requested \cup {archive}
         \/ /\ argument # "nota"
            /\ writer' = Exited("error")
            /\ UNCHANGED requested
  /\ UNCHANGED <<file, receipt, daemon, asOf, failures>>

(* write_configuration: std::fs::write opens the file, which truncates it, *)
(* and then writes it.                                                     *)
OpenOutput ==
  /\ writer.at = "opening"
  /\ writer' = Writing("writing", writer.archive)
  /\ file' = Truncated
  /\ UNCHANGED <<runs, requested, receipt, daemon, asOf, failures>>

WriteOutput ==
  /\ writer.at = "writing"
  /\ writer' = Writing("written", writer.archive)
  /\ file' = writer.archive
  /\ UNCHANGED <<runs, requested, receipt, daemon, asOf, failures>>

(* An error of the write that nobody looks at.                             *)
WriterFailsUnnoticed ==
  /\ writer.at \in {"opening", "writing"}
  /\ writer' = Writing("written", writer.archive)
  /\ UNCHANGED <<file, runs, requested, receipt, daemon, asOf, failures>>

(* Either call returns an error, or someone stops the writer: what is      *)
(* truncated stays so.                                                     *)
WriterFails ==
  /\ writer.at \in {"opening", "writing"}
  /\ writer' = Exited("error")
  /\ UNCHANGED <<file, runs, requested, receipt, daemon, asOf, failures>>

(* The receipt: (ConfigurationWritten [path]).                             *)
PrintReceipt ==
  /\ writer.at = "written"
  /\ writer' = Exited("success")
  /\ receipt' = writer.archive.run
  /\ UNCHANGED <<file, runs, requested, daemon, asOf, failures>>

----------------------------------------------------------------------------
(* The daemon.                                                             *)

(* DaemonCommand::configuration takes a signal file only.                  *)
StartDaemon(argument) ==
  /\ daemon.at = "exited"
  /\ daemon' = IF argument = "signal" THEN [at |-> "loading"]
                                      ELSE Exited("error")
  /\ asOf' = receipt
  /\ UNCHANGED <<deployVars, failures>>

(* Falling back on defaults when the file does not decode.                 *)
LoadConfigurationOrDefault ==
  /\ daemon.at = "loading"
  /\ LET default == [run |-> 1,
                     configuration |-> [socketMode |-> OwnerOnly,
                                        metaSocketMode |-> OwnerOnly]]
     IN  daemon' = Starting("configured", IF file \in Archive THEN file
                                                              ELSE default)
  /\ UNCHANGED <<deployVars, asOf, failures>>

(* A daemon that stays up on a file it cannot read, so that the service    *)
(* manager sees nothing to start again.                                    *)
LoadConfigurationOrIdle ==
  /\ daemon.at = "loading"
  /\ daemon' = IF file \in Archive THEN Starting("configured", file)
                                   ELSE [at |-> "idle"]
  /\ UNCHANGED <<deployVars, asOf, failures>>

(* Configuration::from_binary_path: a file that is absent or truncated is  *)
(* an error, and validate_configuration has nothing to add.                *)
LoadConfiguration ==
  /\ daemon.at = "loading"
  /\ daemon' = IF file \in Archive THEN Starting("configured", file)
                                   ELSE Exited("error")
  /\ UNCHANGED <<deployVars, asOf, failures>>

(* The two modes exchanged.                                                *)
BindExchangingModes ==
  /\ daemon.at = "configured"
  /\ daemon' = Bound("bound", daemon.archive, OwnerOnly,
                     daemon.archive.configuration.socketMode)
  /\ UNCHANGED <<deployVars, asOf, failures>>

(* DaemonBinder::bind: build_runtime does not fail, and the meta socket is *)
(* for its owner only.                                                     *)
Bind ==
  /\ daemon.at = "configured"
  /\ daemon' = Bound("bound", daemon.archive,
                     daemon.archive.configuration.socketMode, OwnerOnly)
  /\ UNCHANGED <<deployVars, asOf, failures>>

(* The listeners bind their sockets, or a crash or an error ends the       *)
(* daemon.                                                                 *)
Serve ==
  /\ daemon.at = "bound"
  /\ \/ daemon' = [daemon EXCEPT !.at = "serving"] /\ UNCHANGED failures
     \/ daemon' = Exited("error") /\ Failure
  /\ UNCHANGED <<deployVars, asOf>>

(* The operator stops it, to have it started again.                        *)
StopDaemon ==
  /\ daemon.at = "serving"
  /\ daemon' = Exited("none")
  /\ UNCHANGED <<deployVars, asOf, failures>>

----------------------------------------------------------------------------

WriterStep ==
  \/ \E argument \in Argument, configuration \in Configuration :
        RunWriter(argument, configuration)
  \/ OpenOutput
  \/ WriteOutput
  \/ WriterFails
  \/ PrintReceipt

DaemonStep ==
  \/ \E argument \in Argument : StartDaemon(argument)
  \/ LoadConfiguration
  \/ Bind
  \/ Serve
  \/ StopDaemon

Next == WriterStep \/ DaemonStep

Spec == Init /\ [][Next]_vars

(* The service manager starts a daemon that is down with its signal file,  *)
(* and a daemon that has been started goes on.  Nobody need deploy.        *)
FairSpec ==
  /\ Spec
  /\ WF_vars(StartDaemon("signal"))
  /\ WF_vars(LoadConfiguration)
  /\ WF_vars(Bind)
  /\ WF_vars(Serve)

----------------------------------------------------------------------------
(* Properties.                                                             *)

(* A daemon that a deployment was finished before runs with what it or a   *)
(* later one deployed, never with an older configuration or with one that  *)
(* nobody asked for, even if it reads the file while it is written.        *)
RunsWhatWasDeployed ==
  daemon.at \in {"configured", "bound", "serving"} =>
    /\ daemon.archive \in requested
    /\ asOf <= daemon.archive.run

(* The receipt is true until the next deployment begins: the file is the   *)
(* archive that was asked for.                                             *)
ReceiptIsTrue ==
  writer = Exited("success") => file \in requested /\ file.run = receipt

(* A daemon that came too early, and failed on a file that was absent or   *)
(* half written, is no obstacle: once a deployment stays, a daemon serves. *)
ComesUpAfterDeployment ==
  <>[](file \in Archive) => []<>(daemon.at = "serving")

(* src/src/configuration.rs:6: the configuration owns what the shell binds *)
(* its listeners from, the mode of the meta socket included.               *)
MetaModeIsConfigured ==
  daemon.at = "serving" =>
    daemon.meta = daemon.archive.configuration.metaSocketMode

============================================================================
