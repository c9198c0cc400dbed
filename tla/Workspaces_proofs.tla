-------------------------- MODULE Workspaces_proofs --------------------------
(* Theorems about Workspaces, for any roots, names, targets and bounds.    *)
EXTENDS Workspaces, TLAPS

(* Unless a client is named "server", the name of a site tells its role.    *)
RoleFits(s, r) == "server" \notin ClientNames => (s.entity = "server" <=> r = "server")
Named == \A s \in Site : config[s] \in Role => RoleFits(s, config[s])

(* What a setup that has passed its prompts has done so far *)
Written ==
    /\ step # "idle" => RoleFits(site, role)
    /\ step \in {"confirm", "override", "dump"} => config[site] = seen
    /\ step = "override" => seen # "none"
    /\ step # "idle" => env_file[site] # "none"
    /\ step \in {"dumpenv", "mkdir", "install", "install_mexec", "reload"} =>
            config[site] = role
    /\ step \in {"mkdir", "install", "install_mexec", "reload"} =>
            env_file[site] = "full"
    /\ step \in {"install", "install_mexec", "reload"} =>
            DirectoriesOf(role) \subseteq dirs[site]
    /\ step = "install_mexec" => unit[role] = site

(* Opening a site by either rule gives one of the roots, never NoRoot: a   *)
(* workspace is never set up nowhere.                                      *)
LEMMA RootsOpened ==
    ASSUME WorkspacesAssumption, NEW variable \in Roots \cup {NoRoot},
           NEW preferred \in Roots \cup {NoRoot}
    PROVE  RootFor(variable, preferred) \in Roots
BY DEF WorkspacesAssumption, RootFor

(* Removing a file at any sites leaves its status typed at all of them.     *)
LEMMA MissingTyped ==
    ASSUME NEW S, NEW T, NEW f \in [Site -> T], "none" \in T
    PROVE  Missing(f, S) \in [Site -> T]
BY DEF Missing

-----------------------------------------------------------------------------
(* The cases of Next as far as they matter to all the proofs *)
BeginsSomewhere == \E s \in Site, r \in Role : RoleFits(s, r) /\ BeginSetup(s, r)

LEMMA NextCases ==
    ASSUME WorkspacesAssumption, Next
    PROVE  \/ BeginsSomewhere /\ (Spend \/ UNCHANGED budget)
           \/ \E root \in Roots :
                /\ CleanAll(root) \/ CleanAllCutShort(root) \/ CleanArchive(root) \/ CleanRuntime(root)
                /\ Spend \/ UNCHANGED budget
           \/ SetupProceeds \/ Aborts \/ CutShort
           \/ Others
<1>1. ASSUME SetsUpClient PROVE BeginsSomewhere /\ Spend
  <2>1. PICK e \in ClientNames, variable \in Roots \cup {NoRoot}, preferred \in Roots \cup {NoRoot} :
            BeginSetup([root |-> RootFor(variable, preferred), entity |-> e], "client")
    BY <1>1 DEF SetsUpClient
  <2>2. [root |-> RootFor(variable, preferred), entity |-> e] \in Site
    BY RootsOpened DEF Site, Names
  <2> QED BY <1>1, <2>1, <2>2 DEF BeginsSomewhere, RoleFits, Role, SetsUpClient
<1>2. ASSUME SetsUpServer PROVE BeginsSomewhere /\ Spend
  <2>1. PICK variable \in Roots \cup {NoRoot}, preferred \in Roots \cup {NoRoot} :
            BeginSetup([root |-> RootFor(variable, preferred), entity |-> "server"], "server")
    BY <1>2 DEF SetsUpServer
  <2>2. [root |-> RootFor(variable, preferred), entity |-> "server"] \in Site
    BY RootsOpened DEF Site, Names, Role
  <2> QED BY <1>2, <2>1, <2>2 DEF BeginsSomewhere, RoleFits, Role, SetsUpServer
<1>3. ASSUME Cleans
      PROVE  /\ Spend
             /\ \E root \in Roots : CleanAll(root) \/ CleanAllCutShort(root)
                                    \/ CleanArchive(root) \/ CleanRuntime(root)
  <2>1. PICK variable \in Roots \cup {NoRoot} :
            LET root == RootFor(variable, NoRoot)
            IN  CleanAll(root) \/ CleanAllCutShort(root) \/ CleanArchive(root) \/ CleanRuntime(root)
    BY <1>3 DEF Cleans
  <2>2. RootFor(variable, NoRoot) \in Roots
    BY RootsOpened
  <2> QED BY <1>3, <2>1, <2>2 DEF Cleans
<1>4. ASSUME Insists
      PROVE  /\ UNCHANGED budget
             /\ BeginsSomewhere \/ \E root \in Roots : CleanAll(root)
  BY <1>4 DEF Insists, BeginsSomewhere, RoleFits, Role, WorkspacesAssumption, Site
<1> QED BY <1>1, <1>2, <1>3, <1>4 DEF Next

-----------------------------------------------------------------------------
(* Type correctness *)
LEMMA TypesInit ==
    ASSUME WorkspacesAssumption, Init
    PROVE  WorkspacesTypeOK
<1>1. /\ config \in [Site -> Config]
      /\ env_file \in [Site -> {"none", "empty", "full"}]
      /\ dirs \in [Site -> SUBSET Directory]
  BY DEF Init, Config
<1>2. data \subseteq Site \X Kind
  BY DEF Init
<1>3. /\ unit \in [Role -> Site \cup {NoSite}]
      /\ mexec_unit \in [Role -> Site \cup {NoSite}]
      /\ running \in [Role -> Site \cup {NoSite}]
  BY DEF Init
<1>4. budget \in 0..MaxCommands
  BY DEF Init, WorkspacesAssumption
<1>5. step = "idle" /\ step \in Step /\ disturbed \in BOOLEAN
  BY DEF Init, Step
<1> QED BY <1>1, <1>2, <1>3, <1>4, <1>5 DEF WorkspacesTypeOK

LEMMA TypesBudget ==
    ASSUME WorkspacesAssumption, WorkspacesTypeOK, Spend \/ UNCHANGED budget
    PROVE  budget' \in 0..MaxCommands
BY DEF WorkspacesAssumption, WorkspacesTypeOK, Spend

LEMMA TypesSetup ==
    ASSUME WorkspacesAssumption, WorkspacesTypeOK, BeginsSomewhere, Spend \/ UNCHANGED budget
    PROVE  WorkspacesTypeOK'
<1>1. PICK s \in Site, r \in Role : BeginSetup(s, r)
  BY DEF BeginsSomewhere
<1> QED
  BY <1>1, TypesBudget DEF BeginSetup, WorkspacesTypeOK, Step, Config, units

LEMMA TypesProceed ==
    ASSUME WorkspacesAssumption, WorkspacesTypeOK, SetupProceeds
    PROVE  WorkspacesTypeOK'
<1> USE DEF WorkspacesTypeOK, Goes, Step, disk, units, history
<1>1. CASE Confirms
  BY <1>1 DEF Confirms, NextPrompt
<1>2. CASE ConfirmsOverride
  BY <1>2 DEF ConfirmsOverride
<1>3. CASE Dumps
  BY <1>3 DEF Dumps, Config
<1>4. CASE DumpsEnv
  BY <1>4 DEF DumpsEnv
<1>5. CASE CreatesDirectories
  <2>1. DirectoriesOf(role) \subseteq Directory
    BY DEF DirectoriesOf, Directory
  <2> QED BY <1>5, <2>1 DEF CreatesDirectories, MakesDirectories
<1>6. CASE InstallsUnit
  BY <1>6 DEF InstallsUnit
<1>7. CASE InstallsMexecUnit
  BY <1>7 DEF InstallsMexecUnit
<1>8. CASE Reloads
  BY <1>8 DEF Reloads, Ends
<1> QED BY <1>1, <1>2, <1>3, <1>4, <1>5, <1>6, <1>7, <1>8 DEF SetupProceeds

LEMMA TypesStopped ==
    ASSUME WorkspacesAssumption, WorkspacesTypeOK, Aborts \/ CutShort
    PROVE  WorkspacesTypeOK'
<1> USE DEF WorkspacesTypeOK, Ends, Step, disk, units
<1>1. CASE Aborts
  BY <1>1, TypesBudget DEF Aborts
<1>2. CASE CutShort
  <2>1. DirectoriesOf(role) \subseteq Directory
    BY DEF DirectoriesOf, Directory
  <2>2. /\ config' \in [Site -> Config]
        /\ env_file' \in [Site -> {"none", "empty", "full"}]
        /\ dirs' \in [Site -> SUBSET Directory]
        /\ data' = data
    BY <1>2, <2>1 DEF CutShort, Config
  <2> QED BY <1>2, <2>2, TypesBudget DEF CutShort
<1> QED BY <1>1, <1>2

LEMMA TypesClean ==
    ASSUME WorkspacesAssumption, WorkspacesTypeOK, NEW root \in Roots,
           CleanAll(root) \/ CleanAllCutShort(root) \/ CleanArchive(root) \/ CleanRuntime(root),
           Spend \/ UNCHANGED budget
    PROVE  WorkspacesTypeOK'
<1>1. /\ config' \in [Site -> Config]
      /\ env_file' \in [Site -> {"none", "empty", "full"}]
  <2>1. "none" \in Config
    BY DEF Config
  <2>2. /\ \A S : Missing(config, S) \in [Site -> Config]
        /\ \A S : Missing(env_file, S) \in [Site -> {"none", "empty", "full"}]
    BY <2>1, MissingTyped DEF WorkspacesTypeOK
  <2>3. CASE CleanAll(root)
    BY <2>2, <2>3 DEF CleanAll
  <2>4. CASE CleanAllCutShort(root)
    BY <2>2, <2>4 DEF CleanAllCutShort
  <2>5. CASE CleanArchive(root) \/ CleanRuntime(root)
    BY <2>5 DEF CleanArchive, CleanRuntime, SpareEnv, WorkspacesTypeOK
  <2> QED BY <2>3, <2>4, <2>5
<1>2. data' \subseteq data
  BY DEF CleanAll, CleanAllCutShort, CleanArchive, CleanRuntime
<1>3. UNCHANGED <<dirs, units, running, setup>> /\ disturbed' \in BOOLEAN
  BY DEF CleanAll, CleanAllCutShort, CleanArchive, CleanRuntime, WorkspacesTypeOK
<1> QED BY <1>1, <1>2, <1>3, TypesBudget DEF WorkspacesTypeOK, units, setup

LEMMA TypesOthers ==
    ASSUME WorkspacesAssumption, WorkspacesTypeOK, Others
    PROVE  WorkspacesTypeOK'
<1> USE DEF WorkspacesTypeOK, disk, units, setup, history
<1>1. ASSUME NEW r \in Role, ServiceStarts(r) PROVE WorkspacesTypeOK'
  <2>1. Opens(r) \in Site
    BY <1>1 DEF ServiceStarts, Opens, Site, Names, WorkspacesAssumption
  <2> QED BY <1>1, <2>1 DEF ServiceStarts
<1>2. ASSUME NEW r \in Role, ServiceEnds(r) PROVE WorkspacesTypeOK'
  BY <1>2 DEF ServiceEnds
<1>3. ASSUME NEW s \in Site, NEW kind \in Kind, NEW d, Puts(s, kind, d) PROVE WorkspacesTypeOK'
  BY <1>3 DEF Puts
<1>4. ASSUME NEW r \in Role, ServiceWrites(r) PROVE WorkspacesTypeOK'
  <2>1. running[r] \in Site
    BY <1>4 DEF ServiceWrites
  <2> QED BY <1>3, <1>4, <2>1 DEF ServiceWrites, Kind
<1>5. ASSUME NEW s \in Site, OperatorPutsTest(s) PROVE WorkspacesTypeOK'
  BY <1>3, <1>5 DEF OperatorPutsTest, Kind
<1> QED BY <1>1, <1>2, <1>4, <1>5 DEF Others

LEMMA TypesStep ==
    ASSUME WorkspacesAssumption, WorkspacesTypeOK, [Next]_vars
    PROVE  WorkspacesTypeOK'
<1>1. CASE UNCHANGED vars
  BY <1>1 DEF vars, disk, units, setup, history, WorkspacesTypeOK
<1>2. CASE Next
  BY <1>2, NextCases, TypesSetup, TypesClean, TypesProceed, TypesStopped, TypesOthers
<1> QED BY <1>1, <1>2

(* Every variable keeps to its type. *)
THEOREM WorkspacesTypes == Spec => []WorkspacesTypeOK
<1>1. Init => WorkspacesTypeOK
  BY WorkspacesAssumption, TypesInit
<1>2. WorkspacesTypeOK /\ [Next]_vars => WorkspacesTypeOK'
  BY WorkspacesAssumption, TypesStep
<1> QED BY <1>1, <1>2, PTL DEF Spec

-----------------------------------------------------------------------------
(* What a setup has done so far stays done: nothing else writes meanwhile, *)
(* and cleaning waits for its end.                                         *)
LEMMA WrittenStep ==
    ASSUME WorkspacesAssumption, WorkspacesTypeOK, Written, [Next]_vars
    PROVE  Written'
<1>1. CASE UNCHANGED vars
  BY <1>1 DEF vars, disk, units, setup, history, Written
<1>2. CASE BeginsSomewhere
  <2>1. PICK s \in Site, r \in Role : RoleFits(s, r) /\ BeginSetup(s, r)
    BY <1>2 DEF BeginsSomewhere
  <2> QED BY <2>1 DEF BeginSetup, Written, WorkspacesTypeOK
<1>3. ASSUME NEW root \in Roots,
             CleanAll(root) \/ CleanAllCutShort(root) \/ CleanArchive(root) \/ CleanRuntime(root)
      PROVE  Written'
  BY <1>3 DEF CleanAll, CleanAllCutShort, CleanArchive, CleanRuntime, setup, Written
<1>4. CASE SetupProceeds
  <2> USE DEF Goes, Written, WorkspacesTypeOK, disk, units, history
  <2>1. CASE Confirms
    BY <1>4, <2>1 DEF Confirms, NextPrompt
  <2>2. CASE ConfirmsOverride
    BY <2>2 DEF ConfirmsOverride
  <2>3. CASE Dumps
    BY <2>3 DEF Dumps
  <2>4. CASE DumpsEnv
    BY <2>4 DEF DumpsEnv
  <2>5. CASE CreatesDirectories
    BY <2>5 DEF CreatesDirectories, MakesDirectories
  <2>6. CASE InstallsUnit
    BY <2>6 DEF InstallsUnit
  <2>7. CASE InstallsMexecUnit
    BY <2>7 DEF InstallsMexecUnit
  <2>8. CASE Reloads
    BY <2>8 DEF Reloads, Ends
  <2> QED BY <1>4, <2>1, <2>2, <2>3, <2>4, <2>5, <2>6, <2>7, <2>8 DEF SetupProceeds
<1>5. CASE Aborts \/ CutShort
  BY <1>5 DEF Aborts, CutShort, Ends, Written
<1>6. CASE Others
  BY <1>6 DEF Others, ServiceStarts, ServiceEnds, ServiceWrites, OperatorPutsTest, Puts,
              disk, units, setup, history, Written
<1> QED BY <1>1, <1>2, <1>3, <1>4, <1>5, <1>6, NextCases

(* Neither cutting a setup short nor cleaning takes a directory away, and  *)
(* no unit is installed before its directories are there.                  *)
LEMMA DirectoriesStep ==
    ASSUME WorkspacesAssumption, WorkspacesTypeOK, Written, DirectoriesExist, [Next]_vars
    PROVE  DirectoriesExist'
<1>1. ASSUME \A s \in Site : dirs[s] \subseteq dirs'[s], UNCHANGED units
      PROVE  DirectoriesExist'
  BY <1>1 DEF DirectoriesExist, WorkspacesTypeOK, units
<1>2. CASE UNCHANGED vars
  BY <1>1, <1>2 DEF vars, disk
<1>3. CASE BeginsSomewhere
  BY <1>1, <1>3 DEF BeginsSomewhere, BeginSetup
<1>4. ASSUME NEW root \in Roots,
             CleanAll(root) \/ CleanAllCutShort(root) \/ CleanArchive(root) \/ CleanRuntime(root)
      PROVE  DirectoriesExist'
  BY <1>1, <1>4 DEF CleanAll, CleanAllCutShort, CleanArchive, CleanRuntime
<1>5. CASE SetupProceeds
  <2>1. CASE Confirms \/ ConfirmsOverride \/ Dumps \/ DumpsEnv \/ Reloads
    BY <1>1, <2>1 DEF Confirms, ConfirmsOverride, Dumps, DumpsEnv, Reloads, disk
  <2>2. CASE CreatesDirectories
    BY <1>1, <2>2 DEF CreatesDirectories, MakesDirectories, Goes, WorkspacesTypeOK
  <2>3. CASE InstallsUnit
    BY <2>3 DEF InstallsUnit, Goes, Written, DirectoriesExist, WorkspacesTypeOK, disk
  <2>4. CASE InstallsMexecUnit
    BY <2>4 DEF InstallsMexecUnit, Goes, Written, DirectoriesExist, WorkspacesTypeOK, disk
  <2> QED BY <1>5, <2>1, <2>2, <2>3, <2>4 DEF SetupProceeds
<1>6. CASE Aborts \/ CutShort
  BY <1>1, <1>6 DEF Aborts, CutShort, WorkspacesTypeOK, disk, units
<1>7. CASE Others
  BY <1>1, <1>7 DEF Others, ServiceStarts, ServiceEnds, ServiceWrites, OperatorPutsTest, Puts,
                    disk
<1> QED BY <1>2, <1>3, <1>4, <1>5, <1>6, <1>7, NextCases

(* Only a setup writes a configuration, for a site that fits its role.      *)
LEMMA NamedStep ==
    ASSUME WorkspacesAssumption, WorkspacesTypeOK, Written, Named, [Next]_vars
    PROVE  Named'
<1>1. ASSUME \A s \in Site : config'[s] \in Role => config'[s] = config[s] PROVE Named'
  BY <1>1 DEF Named, RoleFits
<1>2. "none" \notin Role /\ "torn" \notin Role
  BY DEF Role
<1>3. CASE UNCHANGED config
  BY <1>1, <1>3
<1>4. CASE Dumps
  BY <1>4 DEF Dumps, Goes, Written, Named, RoleFits, WorkspacesTypeOK
<1>5. CASE CutShort
  BY <1>1, <1>2, <1>5 DEF CutShort, WorkspacesTypeOK, disk
<1>6. ASSUME NEW root \in Roots, CleanAll(root) \/ CleanAllCutShort(root)
      PROVE  Named'
  BY <1>1, <1>2, <1>6 DEF CleanAll, CleanAllCutShort, Missing
<1>7. ASSUME NEW root \in Roots, CleanArchive(root) \/ CleanRuntime(root)
      PROVE  UNCHANGED config
  BY <1>7 DEF CleanArchive, CleanRuntime
<1>8. ASSUME BeginsSomewhere \/ Aborts \/ Others \/ UNCHANGED vars PROVE UNCHANGED config
  BY <1>8 DEF BeginsSomewhere, BeginSetup, Aborts, Others, ServiceStarts, ServiceEnds,
              ServiceWrites, OperatorPutsTest, Puts, disk, vars
<1>9. ASSUME SetupProceeds PROVE Dumps \/ UNCHANGED config
  BY <1>9 DEF SetupProceeds, Confirms, ConfirmsOverride, DumpsEnv, CreatesDirectories,
              InstallsUnit, InstallsMexecUnit, Reloads, disk
<1> QED BY <1>3, <1>4, <1>5, <1>6, <1>7, <1>8, <1>9, NextCases

(* As long as nothing is disturbed, a configuration or environment file    *)
(* that is there stays, whole.                                             *)
Whole ==
    ~disturbed => \A r \in Role :
        unit[r] # NoSite =>
            /\ mexec_unit[r] = unit[r] \/ (step = "install_mexec" /\ role = r)
            /\ Loadable(unit[r]) /\ env_file[unit[r]] = "full"

LEMMA WholeStep ==
    ASSUME WorkspacesAssumption, WorkspacesTypeOK, Written, Whole, [Next]_vars
    PROVE  Whole'
<1>1. ASSUME ~disturbed' => ~disturbed,
             ~disturbed' => \A s \in Site : config[s] \in Role => config'[s] \in Role,
             ~disturbed' => \A s \in Site : env_file[s] = "full" => env_file'[s] = "full",
             ~disturbed' => ~(step = "install_mexec" /\ step' # "install_mexec"),
             UNCHANGED <<units, role>> \/ (UNCHANGED units /\ step # "install_mexec")
      PROVE  Whole'
  BY <1>1 DEF Whole, Loadable, WorkspacesTypeOK, units
<1>2. CASE UNCHANGED vars
  BY <1>1, <1>2 DEF vars, disk, setup, history
<1>3. CASE BeginsSomewhere
  BY <1>1, <1>3 DEF BeginsSomewhere, BeginSetup, WorkspacesTypeOK
<1>4. ASSUME NEW root \in Roots,
             CleanAll(root) \/ CleanAllCutShort(root) \/ CleanArchive(root) \/ CleanRuntime(root)
      PROVE  Whole'
  <2>1. CASE CleanAll(root) \/ CleanAllCutShort(root)
    BY <2>1 DEF CleanAll, CleanAllCutShort, Whole
  <2>2. CASE CleanArchive(root) \/ CleanRuntime(root)
    BY <1>1, <2>2 DEF CleanArchive, CleanRuntime, SpareEnv, setup
  <2> QED BY <1>4, <2>1, <2>2
<1>5. CASE SetupProceeds
  <2>1. CASE Confirms \/ ConfirmsOverride
    BY <1>1, <2>1 DEF Confirms, ConfirmsOverride, Goes, disk, history
  <2>2. CASE Dumps
    BY <1>1, <2>2 DEF Dumps, Goes, WorkspacesTypeOK, history
  <2>3. CASE DumpsEnv
    BY <1>1, <2>3 DEF DumpsEnv, Goes, WorkspacesTypeOK, history
  <2>4. CASE CreatesDirectories
    BY <1>1, <2>4 DEF CreatesDirectories, Goes, history
  <2>5. CASE InstallsUnit
    BY <2>5 DEF InstallsUnit, Goes, Written, Whole, Loadable, WorkspacesTypeOK,
                disk, history
  <2>6. CASE InstallsMexecUnit
    BY <2>6 DEF InstallsMexecUnit, Goes, Written, Whole, Loadable, WorkspacesTypeOK,
                disk, history
  <2>7. CASE Reloads
    BY <1>1, <2>7 DEF Reloads, disk, history
  <2> QED BY <1>5, <2>1, <2>2, <2>3, <2>4, <2>5, <2>6, <2>7 DEF SetupProceeds
<1>6. CASE Aborts
  BY <1>1, <1>6 DEF Aborts, disk
<1>7. CASE CutShort
  BY <1>7 DEF CutShort, Whole
<1>8. CASE Others
  BY <1>1, <1>8 DEF Others, ServiceStarts, ServiceEnds, ServiceWrites, OperatorPutsTest, Puts,
                    disk, setup, history
<1> QED BY <1>2, <1>3, <1>4, <1>5, <1>6, <1>7, <1>8, NextCases

(* What is installed under the name of its role is what its unit opens.     *)
LEMMA WholeOpens ==
    ASSUME WorkspacesAssumption, WorkspacesTypeOK, Named, Whole
    PROVE  InstalledIsWhole
<1> SUFFICES ASSUME ~disturbed, NEW r \in Role, unit[r] # NoSite, unit[r].entity = r,
                    "server" \notin ClientNames
             PROVE  Opens(r) = unit[r] /\ CanOpen(r)
  BY DEF InstalledIsWhole, Whole
<1>1. unit[r] \in Site
  BY DEF WorkspacesTypeOK
<1>2. Loadable(unit[r]) /\ env_file[unit[r]] = "full"
  BY DEF Whole
<1>3. Opens(r) = unit[r]
  BY <1>1, <1>2 DEF Opens, Site
<1>4. config[unit[r]] = r
  BY <1>1, <1>2 DEF Loadable, Named, RoleFits, Role
<1> QED BY <1>2, <1>3, <1>4 DEF CanOpen, FindsWorkspace

-----------------------------------------------------------------------------
(* The setup under way has yet to make the directories of s for r.          *)
AboutToMake(s, r) == s = site /\ role = r /\ step \in {"dumpenv", "mkdir"}

(* As long as nothing is disturbed, a configuration comes with the         *)
(* directories of its role.                                                *)
Built ==
    ~disturbed => \A s \in Site :
        config[s] \in Role =>
            DirectoriesOf(config[s]) \subseteq dirs[s] \/ AboutToMake(s, config[s])

Served ==
    ~disturbed => \A r \in Role :
        running[r] # NoSite =>
            DirectoriesOf(r) \subseteq dirs[running[r]] \/ AboutToMake(running[r], r)

LEMMA ServedStep ==
    ASSUME WorkspacesAssumption, WorkspacesTypeOK, Written, Built, Served, [Next]_vars
    PROVE  Built' /\ Served'
<1>1. ASSUME disturbed' PROVE Built' /\ Served'
  BY <1>1 DEF Built, Served
<1>2. ASSUME disturbed' = disturbed, UNCHANGED <<config, running>>,
             \A s \in Site : dirs[s] \subseteq dirs'[s],
             \A s \in Site, r \in Role : AboutToMake(s, r) =>
                    AboutToMake(s, r)' \/ DirectoriesOf(r) \subseteq dirs'[s]
      PROVE  Built' /\ Served'
  BY <1>2 DEF Built, Served, WorkspacesTypeOK
<1>3. CASE UNCHANGED vars
  BY <1>2, <1>3 DEF vars, disk, setup, history, AboutToMake
<1>4. CASE BeginsSomewhere
  BY <1>2, <1>4 DEF BeginsSomewhere, BeginSetup, AboutToMake
<1>5. ASSUME NEW root \in Roots,
             CleanAll(root) \/ CleanAllCutShort(root) \/ CleanArchive(root) \/ CleanRuntime(root)
      PROVE  Built' /\ Served'
  <2>1. CASE CleanAll(root) \/ CleanAllCutShort(root)
    BY <1>1, <2>1 DEF CleanAll, CleanAllCutShort
  <2>2. CASE CleanArchive(root) \/ CleanRuntime(root)
    BY <1>2, <2>2 DEF CleanArchive, CleanRuntime, setup, AboutToMake
  <2> QED BY <1>5, <2>1, <2>2
<1>6. CASE SetupProceeds
  <2>1. CASE Confirms \/ ConfirmsOverride \/ DumpsEnv \/ InstallsUnit \/ InstallsMexecUnit \/ Reloads
    BY <1>2, <2>1 DEF Confirms, ConfirmsOverride, NextPrompt, DumpsEnv, InstallsUnit,
                      InstallsMexecUnit, Reloads, Goes, disk, history, AboutToMake
  <2>2. CASE Dumps
    BY <2>2 DEF Dumps, Goes, history, Built, Served, AboutToMake, WorkspacesTypeOK
  <2>3. CASE CreatesDirectories
    BY <1>2, <2>3 DEF CreatesDirectories, MakesDirectories, Goes, history, AboutToMake,
                      WorkspacesTypeOK
  <2> QED BY <1>6, <2>1, <2>2, <2>3 DEF SetupProceeds
<1>7. CASE Aborts
  BY <1>2, <1>7 DEF Aborts, disk, AboutToMake
<1>8. CASE CutShort
  BY <1>1, <1>8 DEF CutShort
<1>9. CASE Others
  <2>1. ASSUME NEW r \in Role, ServiceStarts(r) PROVE Built' /\ Served'
    <3>1. /\ UNCHANGED <<config, dirs, site, role, step, disturbed>>
          /\ running' = [running EXCEPT ![r] = Opens(r)]
          /\ config[Opens(r)] = r
      BY <2>1 DEF ServiceStarts, CanOpen, disk, setup, history
    <3>2. Opens(r) \in Site
      BY <2>1 DEF ServiceStarts, Opens, Site, Names, WorkspacesAssumption, WorkspacesTypeOK
    <3>3. ~disturbed => DirectoriesOf(r) \subseteq dirs[Opens(r)] \/ AboutToMake(Opens(r), r)
      BY <3>1, <3>2 DEF Built
    <3> QED BY <3>1, <3>2, <3>3 DEF Built, Served, AboutToMake, WorkspacesTypeOK
  <2>2. ASSUME NEW r \in Role, ServiceEnds(r) PROVE Built' /\ Served'
    BY <2>2 DEF ServiceEnds, disk, setup, history, Built, Served, AboutToMake, WorkspacesTypeOK
  <2>3. ASSUME NEW s, NEW kind, NEW d, Puts(s, kind, d) PROVE Built' /\ Served'
    BY <1>2, <2>3 DEF Puts, setup, history, AboutToMake
  <2> QED BY <1>9, <2>1, <2>2, <2>3 DEF Others, ServiceWrites, OperatorPutsTest
<1> QED BY <1>3, <1>4, <1>5, <1>6, <1>7, <1>8, <1>9, NextCases

-----------------------------------------------------------------------------
IInv == /\ WorkspacesTypeOK /\ Written /\ DirectoriesExist
        /\ Named /\ Whole /\ Built /\ Served

LEMMA Inductive == Spec => []IInv
<1>1. Init => IInv
  <2>1. ASSUME Init PROVE Written /\ DirectoriesExist /\ Named /\ Whole /\ Built /\ Served
    BY <2>1 DEF Init, Written, DirectoriesExist, Named, Whole, Built, Served, Role
  <2> QED BY <2>1, WorkspacesAssumption, TypesInit DEF IInv
<1>2. IInv /\ [Next]_vars => IInv'
  BY WorkspacesAssumption, TypesStep, WrittenStep, DirectoriesStep, NamedStep, WholeStep,
     ServedStep DEF IInv
<1> QED BY <1>1, <1>2, PTL DEF Spec

(* Installed units have their directories, whatever is cut short.          *)
THEOREM DirectoriesAreKept == Spec => []DirectoriesExist
<1>1. IInv => DirectoriesExist
  BY DEF IInv
<1> QED BY <1>1, Inductive, PTL

(* Undisturbed, an installation stays whole: aborted setups, setups of     *)
(* other sites and cleaning do not break it, and what a unit starts opens  *)
(* the site it was installed for if that bears the name of its role.       *)
THEOREM InstallationsStayWhole == Spec => []InstalledIsWhole
<1>1. IInv => InstalledIsWhole
  BY WorkspacesAssumption, WholeOpens DEF IInv
<1> QED BY <1>1, Inductive, PTL

(* Undisturbed, a process finds its directories, also one that another     *)
(* client's unit starts, except while a setup is about to make them.       *)
THEOREM DirectoriesAwaitServices == Spec => []ServicesHaveDirectories
<1>1. IInv => ServicesHaveDirectories
  BY DEF IInv, Served, AboutToMake, ServicesHaveDirectories
<1> QED BY <1>1, Inductive, PTL
=============================================================================
