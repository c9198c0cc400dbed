----------------------------- MODULE Workspaces -----------------------------
(***************************************************************************)
(* Setting up, using and cleaning workspaces.  An operator runs `motra     *)
(* workspace client`, `... server` and `... clean`, one after the other;   *)
(* each of them may be aborted at a prompt, be refused by sudo, or be      *)
(* killed.  Whatever they leave is what systemd starts the services from,  *)
(* at any time, also while the operator looks at a prompt.                 *)
(*                                                                         *)
(* A site is an entity in a workspace root.  It has a configuration        *)
(* {root}/{entity}.config, a storage {root}/{entity} with the environment  *)
(* file {entity}.env and directories, and what services and operators put  *)
(* there.  No command removes a directory.                                 *)
(***************************************************************************)
EXTENDS Naturals, FiniteSets

CONSTANTS
    Roots,         \* directories that may be a workspace
    Home,          \* the default one, /home/<user>/.local/share/motra
    NoRoot,        \* MOTRA_WORKSPACE is not set, no directory is preferred
    ClientNames,   \* names that an operator gives to clients
    NoSite,        \* no unit, no process
    Target,        \* the site that the operator insists on
    MaxCommands,   \* bound: commands besides those that set up the target
    MaxFiles       \* bound: files below the storages at the same time

Role  == {"client", "server"}
Names == ClientNames \cup Role
Site  == [root : Roots, entity : Names]

ASSUME WorkspacesAssumption ==
    /\ Home \in Roots /\ NoRoot \notin Roots
    /\ NoSite \notin Site
    /\ Target \in Site /\ Target.entity \in ClientNames
    /\ MaxCommands \in Nat /\ MaxFiles \in Nat

VARIABLES
    config,      \* "none", "torn" (written in part), or the type in it
    env_file,    \* "none", "empty" (touched, or written in part), "full"
    dirs,        \* directories in the storage
    data,        \* the files in these directories, with their site
    unit,        \* role -> site of motra-client@ / motra-server.service
    mexec_unit,  \* role -> site of motra-{role}-mexec@.service
    running,     \* role -> site its process works in
    step, site, role, seen,   \* the setup under way, and the config it found
    budget,      \* commands left
    disturbed    \* history: a command was cut short, or removed everything

disk    == <<config, env_file, dirs, data>>
units   == <<unit, mexec_unit>>
setup   == <<step, site, role, seen>>
history == <<budget, disturbed>>
vars    == <<disk, units, running, setup, history>>

Config == {"none", "torn"} \cup Role
Directory == {"live", "archive", "staging", "tests"}
Kind == {"capture", "zip", "test", "bad_test"}
Step == {"idle", "confirm", "override", "dump", "dumpenv", "mkdir",
         "install", "install_mexec", "reload"}

BadDirectoriesOf(r) ==   \* the key instead of the path
    IF r = "client" THEN {"live", "archive", "stage"} ELSE {"live", "archive", "tests"}
DirectoriesOf(r) == IF r = "client" THEN {"live", "archive", "staging"}
                                    ELSE {"live", "archive", "tests"}

WorkspacesTypeOK ==
    /\ config \in [Site -> Config]
    /\ env_file \in [Site -> {"none", "empty", "full"}]
    /\ dirs \in [Site -> SUBSET Directory]
    /\ data \subseteq Site \X Kind
    /\ unit \in [Role -> Site \cup {NoSite}]
    /\ mexec_unit \in [Role -> Site \cup {NoSite}]
    /\ running \in [Role -> Site \cup {NoSite}]
    /\ step \in Step
    /\ step # "idle" => site \in Site /\ role \in Role /\ seen \in Config
    /\ budget \in 0..MaxCommands
    /\ disturbed \in BOOLEAN

Init ==
    /\ config = [s \in Site |-> "none"]
    /\ env_file = [s \in Site |-> "none"]
    /\ dirs = [s \in Site |-> {}]
    /\ data = {}
    /\ unit = [r \in Role |-> NoSite]
    /\ mexec_unit = [r \in Role |-> NoSite]
    /\ running = [r \in Role |-> NoSite]
    /\ step = "idle" /\ site = NoSite /\ role = "none" /\ seen = "none"
    /\ budget = MaxCommands
    /\ disturbed = FALSE

-----------------------------------------------------------------------------
(* Finding and opening a workspace *)

(* get_default_workspace_path: the environment comes before the preference *)
RootFor(variable, preferred) ==
    IF variable # NoRoot THEN variable
    ELSE IF preferred # NoRoot THEN preferred ELSE Home

(* FileConfiguration.model_validate_json: whole, and the environment file  *)
(* it names exists                                                         *)
Loadable(s) == config[s] \in Role /\ env_file[s] # "none"

(* init_entity_workspace_dir: nothing is there, or it can be loaded and    *)
(* its type is the name of the entity                                      *)
Accepted(s) == config[s] = "none" \/ (Loadable(s) /\ config[s] = s.entity)

(* get_initialized_default_workspace: some *.config is there *)
Initialized(root) == \E s \in Site : s.root = root /\ config[s] # "none"

-----------------------------------------------------------------------------
(* motra workspace client / server *)

Spend == budget > 0 /\ budget' = budget - 1

Installed(s, r) ==
    /\ Loadable(s) /\ config[s] = r
    /\ env_file[s] = "full"
    /\ DirectoriesOf(r) \subseteq dirs[s]
    /\ unit[r] = s /\ mexec_unit[r] = s

(* Checks what is there, creates the storage, touches the environment file *)
BeginSetup(s, r) ==
    /\ step = "idle"
    /\ Accepted(s)
    /\ step' = "confirm" /\ site' = s /\ role' = r /\ seen' = config[s]
    /\ env_file' = [env_file EXCEPT ![s] = IF @ = "none" THEN "empty" ELSE @]
    /\ UNCHANGED <<config, dirs, data, units, running, disturbed>>

SetsUpClient ==
    /\ \E e \in ClientNames, variable, preferred \in Roots \cup {NoRoot} :
        BeginSetup([root |-> RootFor(variable, preferred), entity |-> e], "client")
    /\ Spend

SetsUpServer ==
    /\ \E variable, preferred \in Roots \cup {NoRoot} :
        BeginSetup([root |-> RootFor(variable, preferred), entity |-> "server"], "server")
    /\ Spend

Goes(from, to) ==
    /\ step = from /\ step' = to
    /\ UNCHANGED <<site, role, seen, running, history>>

(* "Is the current configuration correct?" *)
NextPrompt == IF seen = "none" THEN "dump" ELSE "override"
Confirms == Goes("confirm", NextPrompt) /\ UNCHANGED <<disk, units>>

(* "Override existing configuration?" *)
ConfirmsOverride == Goes("override", "dump") /\ UNCHANGED <<disk, units>>

Dumps ==
    /\ Goes("dump", "dumpenv")
    /\ config' = [config EXCEPT ![site] = role]
    /\ UNCHANGED <<env_file, dirs, data, units>>

DumpsEnv ==
    /\ Goes("dumpenv", "mkdir")
    /\ env_file' = [env_file EXCEPT ![site] = "full"]
    /\ UNCHANGED <<config, dirs, data, units>>

BadMakesDirectories ==   \* keeps what an earlier setup made
    dirs' = IF seen # "none" THEN dirs ELSE [dirs EXCEPT ![site] = @ \cup DirectoriesOf(role)]
BadMakesLiveOnly ==      \* the working directory of the units
    dirs' = [dirs EXCEPT ![site] = @ \cup {"live"}]
MakesDirectories == dirs' = [dirs EXCEPT ![site] = @ \cup DirectoriesOf(role)]
CreatesDirectories ==
    /\ Goes("mkdir", "install")
    /\ MakesDirectories
    /\ UNCHANGED <<config, env_file, data, units>>

InstallsUnit ==
    /\ Goes("install", "install_mexec")
    /\ unit' = [unit EXCEPT ![role] = site]
    /\ UNCHANGED <<disk, mexec_unit>>

InstallsMexecUnit ==
    /\ Goes("install_mexec", "reload")
    /\ mexec_unit' = [mexec_unit EXCEPT ![role] = site]
    /\ UNCHANGED <<disk, unit>>

Ends == step' = "idle" /\ site' = NoSite /\ role' = "none" /\ seen' = "none"

Reloads == step = "reload" /\ Ends /\ UNCHANGED <<disk, units, running, history>>

(* "no" at a prompt, which is before anything but the storage and the      *)
(* environment file is written                                             *)
Aborts ==
    /\ step \in {"confirm", "override"}
    /\ Ends /\ Spend
    /\ UNCHANGED <<disk, units, running, disturbed>>

(* Killed, refused by sudo, or out of space: in the middle of the step     *)
CutShort ==
    /\ step # "idle"
    /\ Ends /\ Spend /\ disturbed' = TRUE
    /\ \/ UNCHANGED disk
       \/ /\ step = "dump"
          /\ config' = [config EXCEPT ![site] = "torn"]
          /\ UNCHANGED <<env_file, dirs, data>>
       \/ /\ step = "dumpenv"
          /\ env_file' = [env_file EXCEPT ![site] = "empty"]
          /\ UNCHANGED <<config, dirs, data>>
       \/ /\ step = "mkdir"
          /\ \E made \in SUBSET DirectoriesOf(role) :
                dirs' = [dirs EXCEPT ![site] = @ \cup made]
          /\ UNCHANGED <<config, env_file, data>>
    /\ UNCHANGED <<units, running>>

SetupProceeds ==
    \/ Confirms \/ ConfirmsOverride \/ Dumps \/ DumpsEnv \/ CreatesDirectories
    \/ InstallsUnit \/ InstallsMexecUnit \/ Reloads

-----------------------------------------------------------------------------
(* motra workspace clean --no-dry-run *)

In(root) == {s \in Site : s.root = root}
Configured(root) == {s \in In(root) : config[s] # "none"}

WithEnv(root) == {s \in In(root) : env_file[s] # "none"}
Below(S) == {f \in data : f[1] \in S}
Missing(files, S) == [s \in Site |-> IF s \in S THEN "none" ELSE files[s]]

(* --all: every file below the root *)
BadCleanable(root) == Initialized(root) /\ \A s \in Configured(root) : Loadable(s)
Cleanable(root) == Initialized(root)

CleanAll(root) ==
    /\ step = "idle" /\ Cleanable(root)
    /\ config' = Missing(config, In(root))
    /\ env_file' = Missing(env_file, In(root))
    /\ data' = data \ Below(In(root))
    /\ disturbed' = TRUE
    /\ UNCHANGED <<dirs, units, running, setup>>

(* killed after some of them, in the order of glob *)
CleanAllCutShort(root) ==
    /\ step = "idle" /\ Cleanable(root)
    /\ \E C \in SUBSET Configured(root) : config' = Missing(config, C)
    /\ \E E \in SUBSET WithEnv(root) : env_file' = Missing(env_file, E)
    /\ \E D \in SUBSET Below(In(root)) : data' = data \ D
    /\ disturbed' = TRUE
    /\ UNCHANGED <<dirs, units, running, setup>>

(* --archive: every zip below the root *)
CleanArchive(root) ==
    /\ step = "idle" /\ Cleanable(root)
    /\ data' = {f \in data : f[1].root = root => f[2] # "zip"}
    /\ UNCHANGED <<config, env_file, dirs, units, running, setup, disturbed>>

(* By default: what lies below the storage of each configured entity, its  *)
(* environment file excepted, until a configuration cannot be loaded.      *)
BadSpareEnv(S) == env_file' = Missing(env_file, S)
SpareEnv(S) == UNCHANGED env_file

CleanRuntime(root) ==
    /\ step = "idle" /\ Cleanable(root)
    /\ \E S \in SUBSET Configured(root) :
        /\ \A s \in S : Loadable(s)
        /\ S = Configured(root) \/ \E s \in Configured(root) \ S : ~Loadable(s)
        /\ data' = data \ Below(S)
        /\ SpareEnv(S)
    /\ UNCHANGED <<config, dirs, units, running, setup, disturbed>>

Cleans ==
    /\ \E variable \in Roots \cup {NoRoot} :
        LET root == RootFor(variable, NoRoot)
        IN  CleanAll(root) \/ CleanAllCutShort(root) \/ CleanArchive(root) \/ CleanRuntime(root)
    /\ Spend

-----------------------------------------------------------------------------
(* The services.  Their environment is the environment file of their unit; *)
(* systemd does not start a unit whose file is missing.  motra client is   *)
(* started without --client-id, so its entity is "client", whatever name   *)
(* the unit was installed for.                                             *)

Opens(r) ==
    [root   |-> IF env_file[unit[r]] = "full" THEN unit[r].root ELSE Home,
     entity |-> r]

(* The server runs as root, whose default workspace nobody has set up.     *)
FindsWorkspace(r) == env_file[unit[r]] = "full" \/ (env_file[unit[r]] = "empty" /\ r = "client")

(* scan_tests: exit(1) on a file that is no JSON, or on a second CapCon    *)
(* with the same CapConID                                                  *)
TestsReadable(s) == <<s, "bad_test">> \notin data

(* open_existing_workspace of the client, init_entity_workspace_dir of    *)
(* the server                                                              *)
CanOpen(r) == FindsWorkspace(r) /\ Loadable(Opens(r)) /\ config[Opens(r)] = r

ServiceStarts(r) ==
    /\ unit[r] # NoSite /\ running[r] = NoSite
    /\ CanOpen(r)
    /\ r = "server" => TestsReadable(Opens(r))
    /\ running' = [running EXCEPT ![r] = Opens(r)]
    /\ UNCHANGED <<disk, units, setup, history>>

ServiceEnds(r) ==
    /\ running[r] # NoSite
    /\ running' = [running EXCEPT ![r] = NoSite]
    /\ UNCHANGED <<disk, units, setup, history>>

Puts(s, kind, directory) ==
    /\ directory \in dirs[s]
    /\ Cardinality(data) < MaxFiles
    /\ data' = data \cup {<<s, kind>>}
    /\ UNCHANGED <<config, env_file, dirs, units, running, setup, history>>

ServiceWrites(r) ==
    /\ running[r] # NoSite
    /\ Puts(running[r], "capture", "live") \/ Puts(running[r], "zip", "archive")

OperatorPutsTest(s) == Puts(s, "test", "tests") \/ Puts(s, "bad_test", "tests")

Others ==
    \/ \E r \in Role : ServiceStarts(r) \/ ServiceEnds(r) \/ ServiceWrites(r)
    \/ \E s \in Site : OperatorPutsTest(s)

-----------------------------------------------------------------------------
(* The operator insists on the target: as long as it is not installed, set *)
(* it up, and where that is refused, remove everything and start again.    *)
Insists ==
    /\ ~Installed(Target, "client")
    /\ \/ BeginSetup(Target, "client")
       \/ ~Accepted(Target) /\ CleanAll(Target.root)
    /\ UNCHANGED budget

Next ==
    \/ SetsUpClient \/ SetsUpServer \/ Cleans
    \/ SetupProceeds \/ Aborts \/ CutShort
    \/ Insists
    \/ Others

(* The operator answers every prompt, and does not give up. *)
Spec == Init /\ [][Next]_vars /\ WF_vars(SetupProceeds) /\ WF_vars(Insists)

-----------------------------------------------------------------------------
(* Properties *)

(* A unit is only installed where its directories are, the working         *)
(* directory of its processes among them: neither a setup that was cut     *)
(* short nor a clean takes one away from an installed unit.                *)
DirectoriesExist ==
    \A r \in Role :
        /\ unit[r] # NoSite => DirectoriesOf(r) \subseteq dirs[unit[r]]
        /\ mexec_unit[r] # NoSite => DirectoriesOf(r) \subseteq dirs[mexec_unit[r]]

(* As long as no command was cut short and nobody removed everything, both *)
(* units of a role belong to the same site, except while they are being    *)
(* replaced, and its configuration and environment file are whole: aborted *)
(* setups, setups of other sites and cleaning leave an installation so.    *)
(* What the unit starts can open that site if it bears the name that it    *)
(* looks for, its role, and no client has taken the name of the server.    *)
(* (The unit of a client with a name of its own opens the site of the      *)
(* entity "client" instead, which may not be there.)                       *)
InstalledIsWhole ==
    ~disturbed => \A r \in Role :
        unit[r] # NoSite =>
            /\ mexec_unit[r] = unit[r] \/ (step = "install_mexec" /\ role = r)
            /\ Loadable(unit[r]) /\ env_file[unit[r]] = "full"
            /\ unit[r].entity = r /\ "server" \notin ClientNames =>
                    Opens(r) = unit[r] /\ CanOpen(r)

(* Setup writes a configuration before it makes the directories, and the   *)
(* unit of another client may start a process into it in between.  That is *)
(* the only time at which a process works where its directories are        *)
(* missing, and they are made before the setup installs anything, as long  *)
(* as no command was cut short and nobody removed everything.              *)
ServicesHaveDirectories ==
    ~disturbed => \A r \in Role :
        running[r] # NoSite =>
            \/ DirectoriesOf(r) \subseteq dirs[running[r]]
            \/ running[r] = site /\ role = r /\ step \in {"dumpenv", "mkdir"}

(* An operator who answers the prompts and does not give up gets the       *)
(* target installed for good, whatever commands were cut short before:     *)
(* whenever a setup is refused, clean --all is not.                        *)
SetupSucceeds == <>[]Installed(Target, "client")
=============================================================================
