------------------------------- MODULE Config -------------------------------
(***************************************************************************)
(* The configuration in global_config: main layers the defaults, a         *)
(* configuration file and the command line, starts the three groups of     *)
(* threads from the result, and the display loop then reloads four of the  *)
(* fields whenever ./generator.conf carries a new modification time.       *)
(*                                                                         *)
(* A line of a file is [name, nums] and stands for NAME=nums: the numbers  *)
(* that atoi or sscanf finds after the "=", none on a blank value.  Lines  *)
(* are named after the field they set.  An option of the command line is   *)
(* [name, value].  The editor that saves the file is the environment.      *)
(***************************************************************************)
EXTENDS Integers, Sequences, FiniteSets

CONSTANTS
    Versions,      \* contents a configuration file may have
    Saves,         \* contents the editor may save while the program runs
    Argvs,         \* command lines
    OtherFile,     \* a file that --config may name
    Defaults,      \* init_config_s, for every field
    MaxPktlen,     \* 1600
    CleanDepth,    \* 4: beyond this pipe_depth sessions are cleaned
    Junk,          \* what an uninitialized limit may hold
    Rounds,        \* 100, iterations of the display loop
    MaxSaves       \* bound on what the editor does

CONFIG_FILE == "./generator.conf"
Files == {CONFIG_FILE, OtherFile}

Reloadable == {"pipe_depth", "screen_display", "speed_mode", "destory_time"}
Scalars ==
    {"protocol", "srcmac", "dstmac", "pktlen", "pkt_data", "speed", "link_name",
     "generator_nums", "parser_nums", "manager_nums", "generator_pool_size",
     "parser_queue_length", "parser_pool_size", "manager_pool_size",
     "manager_queue_length", "manager_hash_length", "manager_buffer_size",
     "packet_generator_mode"} \cup Reloadable
Addresses == {"saddr", "daddr"}
Ports == {"sport", "dport"}
Ranges == Addresses \cup Ports
Low == [saddr |-> "saddr_min", daddr |-> "daddr_min", sport |-> "sport_min", dport |-> "dport_min"]
High == [saddr |-> "saddr_max", daddr |-> "daddr_max", sport |-> "sport_max", dport |-> "dport_max"]
Fields == Scalars \cup {Low[r] : r \in Ranges} \cup {High[r] : r \in Ranges}

(* The field that parse_args assigns for an option.  The others reach an   *)
(* empty branch, a name that parse_args compares with but getopt_long does *)
(* not know, or (mhash_length, mbuffer_size) a break before the assignment.*)
OptionField ==
    [generator_nums |-> "generator_nums", parser_nums |-> "parser_nums",
     manager_nums |-> "manager_nums", pktlen |-> "pktlen",
     gpool_size |-> "generator_pool_size", pqueue_length |-> "parser_queue_length",
     packet_generator_mode |-> "packet_generator_mode"]

(* What a file may hold: its lines, and whether the last one ends in "\n". *)
FileType(lines) == [lines : lines, terminated : BOOLEAN]

ASSUME ConfigAssumption ==
    /\ Saves \subseteq Versions
    /\ \A v \in Versions : v \in FileType({v.lines}) /\ v.lines \in Seq([name : STRING, nums : Seq(Int)])
    /\ \A a \in Argvs : a \in Seq({a[i] : i \in DOMAIN a})
    /\ \A a \in Argvs : \A i \in DOMAIN a :
         /\ a[i].name \in STRING
         /\ a[i].value \in IF a[i].name = "config" THEN Files ELSE Int
    /\ OtherFile \in STRING \ {CONFIG_FILE}
    /\ Defaults \in [Fields -> Int]
    /\ Defaults.generator_nums <= Defaults.parser_nums /\ Defaults.pktlen <= MaxPktlen
    /\ MaxPktlen \in Nat /\ CleanDepth \in Nat /\ Junk \subseteq Int
    /\ Rounds \in Nat /\ MaxSaves \in Nat

VARIABLES
    files,        \* per file: its content and st_mtime, or Absent
    argv,         \* the command line
    phase,        \* where the main thread is
    config_file,  \* the file that main reads
    lines,        \* lines of the open file that are still to be read
    args,         \* options that are still to be parsed
    cfg,          \* *global_config
    source,       \* history: the lines of the file main opened
    period,       \* the arguments of calc_period
    groups,       \* numbers of the manager, parser and generator group
    copied,       \* the configuration the generators copied
    cleaner,      \* process_all_session runs
    old,          \* read_config_simple's static old
    count,        \* iterations left of the display loop
    state,        \* the display loop's state: 0, 1 (speed only) or 2 (all queues)
    screen,       \* what its last iteration printed
    before,       \* history: screen_display at its last two iterations, -1 for none
    clock,        \* time(), in seconds
    saves,        \* what the editor has done
    resaved       \* history: some mtime belonged to two contents

startVars == <<argv, config_file, args, source, period, groups, copied, cleaner>>
editVars == <<files, saves, resaved>>
screenVars == <<state, screen, before>>
loopVars == <<old, count, clock, screenVars>>
vars == <<startVars, editVars, loopVars, phase, lines, cfg>>

Absent == [lines |-> <<>>, terminated |-> FALSE, mtime |-> 0]
NoGroups == [managers |-> 0, parsers |-> 0, generators |-> 0]
Running == {"show", "stat", "reopen", "reread", "sleep"}

(* Types; the display loop counts its Rounds down to 0 and no further. *)
TypeOK ==
    /\ files \in [Files -> [lines : {v.lines : v \in Versions} \cup {<<>>},
                            terminated : BOOLEAN, mtime : 0..(Rounds + 1)]]
    /\ argv \in Argvs /\ config_file \in Files
    /\ phase \in {"scan", "open", "read", "args", "check", "managers", "parsers",
                  "generators", "exited"} \cup Running
    /\ cfg \in [Fields -> Int] /\ copied \in [Fields -> Int]
    /\ groups \in [managers : Int, parsers : Int, generators : Int]
    /\ cleaner \in BOOLEAN /\ resaved \in BOOLEAN
    /\ old \in 0..(Rounds + 1) /\ count \in 0..Rounds /\ clock \in 1..(Rounds + 1)
    /\ saves \in 0..MaxSaves
    /\ state \in 0..2 /\ screen \in {"none", "gen", "gpm"} /\ before \in Int \X Int

Init ==
    /\ files \in [Files -> {[lines |-> v.lines, terminated |-> v.terminated, mtime |-> 1] : v \in Versions}
                            \cup {Absent}]
    /\ argv \in Argvs /\ phase = "scan" /\ config_file = CONFIG_FILE
    /\ lines = <<>> /\ args = argv /\ cfg = Defaults /\ source = <<>>
    /\ period = <<>> /\ groups = NoGroups /\ copied = Defaults /\ cleaner = FALSE
    /\ old = 0 /\ count = Rounds /\ clock = 1 /\ saves = 0 /\ resaved = FALSE
    /\ state = 0 /\ screen = "none" /\ before = <<-1, -1>>

(* fgets meets the end of the file on an unterminated last line, and feof  *)
(* ends the loop before the line is looked at.                             *)
Readable(file) ==
    IF file.terminated \/ file.lines = <<>> THEN file.lines
    ELSE SubSeq(file.lines, 1, Len(file.lines) - 1)

Value(line) == IF line.nums = <<>> THEN 0 ELSE line.nums[1]

(* "+n" after the first number; sscanf returns 1 for a port without one,   *)
(* and 4, which is not tested for, for an address without one.             *)
Limits(line) ==
    IF Len(line.nums) = 2 THEN {line.nums[1] + line.nums[2]}
    ELSE IF line.name \in Ports THEN {line.nums[1]} ELSE Junk

-----------------------------------------------------------------------------
(* main *)

(* The last "--config name" wins. *)
ScanArgs ==
    LET named == {i \in DOMAIN argv : argv[i].name = "config"} IN
    /\ phase = "scan"
    /\ config_file' = IF named = {} THEN CONFIG_FILE
                      ELSE argv[CHOOSE i \in named : \A j \in named : j <= i].value
    /\ phase' = "open"
    /\ UNCHANGED <<argv, args, source, period, groups, copied, cleaner,
                   editVars, loopVars, lines, cfg>>

OpenConfig ==
    /\ phase = "open"
    /\ phase' = IF files[config_file] = Absent THEN "exited" ELSE "read"
    /\ lines' = Readable(files[config_file]) /\ source' = lines'
    /\ UNCHANGED <<argv, config_file, args, period, groups, copied, cleaner,
                   editVars, loopVars, cfg>>

(* A line that sets a scalar.  PROTO leaves the protocol alone unless it   *)
(* names one; a PKTLEN that is too long ends the program.                  *)
SetScalar(line) ==
    /\ line.name \in Scalars
    /\ cfg' = IF line.name = "protocol" /\ line.nums = <<>> THEN cfg
              ELSE [cfg EXCEPT ![line.name] = Value(line)]
    /\ phase' = IF line.name = "pktlen" /\ Value(line) > MaxPktlen THEN "exited" ELSE phase
    /\ lines' = Tail(lines)

SetRange(line) ==
    /\ line.name \in Ranges /\ line.nums # <<>>
    /\ \E limit \in Limits(line) :
         cfg' = [cfg EXCEPT ![Low[line.name]] = line.nums[1], ![High[line.name]] = limit]
    /\ lines' = Tail(lines)
    /\ UNCHANGED phase

(* A blank address or port makes read_config_file return at once. *)
BadRange(line) ==
    /\ line.name \in Ranges /\ line.nums = <<>>
    /\ lines' = <<>>
    /\ UNCHANGED <<cfg, phase>>

(* A comment, or a name that is not known. *)
SkipLine(line) ==
    /\ line.name \notin Scalars \cup Ranges
    /\ lines' = Tail(lines)
    /\ UNCHANGED <<cfg, phase>>

ReadLine ==
    /\ phase = "read" /\ lines # <<>>
    /\ LET line == Head(lines) IN
         SetScalar(line) \/ SetRange(line) \/ BadRange(line) \/ SkipLine(line)
    /\ UNCHANGED <<startVars, editVars, loopVars>>

EndOfFile ==
    /\ phase = "read" /\ lines = <<>>
    /\ phase' = "args"
    /\ UNCHANGED <<startVars, editVars, loopVars, lines, cfg>>

ParseOptionYielding ==
    LET field == OptionField[Head(args).name] IN
    /\ phase = "args" /\ args # <<>>
    /\ cfg' = IF Head(args).name \in DOMAIN OptionField /\ cfg[field] = Defaults[field]
              THEN [cfg EXCEPT ![field] = Head(args).value] ELSE cfg
    /\ args' = Tail(args)
    /\ UNCHANGED <<argv, config_file, source, period, groups, copied, cleaner,
                   editVars, loopVars, phase, lines>>

(* One round of getopt_long. *)
ParseOption ==
    /\ phase = "args" /\ args # <<>>
    /\ cfg' = IF Head(args).name \in DOMAIN OptionField
              THEN [cfg EXCEPT ![OptionField[Head(args).name]] = Head(args).value] ELSE cfg
    /\ args' = Tail(args)
    /\ UNCHANGED <<argv, config_file, source, period, groups, copied, cleaner,
                   editVars, loopVars, phase, lines>>

CalcPeriod ==
    /\ phase = "args" /\ args = <<>>
    /\ period' = <<cfg.pktlen, cfg.speed, cfg.generator_nums>>
    /\ phase' = "check"
    /\ UNCHANGED <<argv, config_file, args, source, groups, copied, cleaner,
                   editVars, loopVars, lines, cfg>>

CheckNumsOffByOne ==
    /\ phase = "check"
    /\ phase' = IF cfg.generator_nums > cfg.parser_nums + 1 THEN "exited" ELSE "managers"
    /\ UNCHANGED <<startVars, editVars, loopVars, lines, cfg>>

CheckNums ==
    /\ phase = "check"
    /\ phase' = IF cfg.generator_nums > cfg.parser_nums THEN "exited" ELSE "managers"
    /\ UNCHANGED <<startVars, editVars, loopVars, lines, cfg>>

(* init_manager_group decides once whether the sessions are cleaned. *)
StartManagers ==
    /\ phase = "managers"
    /\ groups' = [groups EXCEPT !.managers = cfg.manager_nums]
    /\ cleaner' = (cfg.pipe_depth > CleanDepth)
    /\ phase' = "parsers"
    /\ UNCHANGED <<argv, config_file, args, source, period, copied,
                   editVars, loopVars, lines, cfg>>

StartParsers ==
    /\ phase = "parsers"
    /\ groups' = [groups EXCEPT !.parsers = cfg.parser_nums]
    /\ phase' = "generators"
    /\ UNCHANGED <<argv, config_file, args, source, period, copied, cleaner,
                   editVars, loopVars, lines, cfg>>

(* Every generator takes a copy of the configuration. *)
StartGenerators ==
    /\ phase = "generators"
    /\ groups' = [groups EXCEPT !.generators = cfg.generator_nums]
    /\ copied' = cfg
    /\ phase' = "show"
    /\ UNCHANGED <<argv, config_file, args, source, period, cleaner,
                   editVars, loopVars, lines, cfg>>

(* A generator's device cannot be opened, or its thread not created. *)
StartGeneratorsFails ==
    /\ phase = "generators"
    /\ phase' = "exited"
    /\ UNCHANGED <<startVars, editVars, loopVars, lines, cfg>>

-----------------------------------------------------------------------------
(* sys_display and read_config_simple *)

(* The loop's switch: a change of screen_display costs an iteration that   *)
(* prints nothing, and in state 0 anything but 0 and 1 is waited out.      *)
StateAfter ==
    CASE cfg.screen_display = 1 -> 2
      [] cfg.screen_display = 0 -> 1
      [] OTHER -> state

ScreenOf(s) == IF s = 1 THEN "gen" ELSE "gpm"

SwitchForgettingChange ==
    /\ state' = IF state = 0 THEN StateAfter ELSE state
    /\ screen' = IF state = state' /\ state # 0 THEN ScreenOf(state) ELSE "none"
    /\ before' = <<before[2], cfg.screen_display>>

Switch ==
    /\ state' = StateAfter
    /\ screen' = IF state = state' /\ state # 0 THEN ScreenOf(state) ELSE "none"
    /\ before' = <<before[2], cfg.screen_display>>

(* One iteration of the loop; after the last one exit(0). *)
Show ==
    /\ phase = "show"
    /\ \/ /\ count > 0
          /\ phase' = "stat" /\ count' = count - 1
          /\ Switch
       \/ /\ count = 0
          /\ phase' = "exited"
          /\ UNCHANGED <<count, screenVars>>
    /\ UNCHANGED <<startVars, editVars, old, clock, lines, cfg>>

(* The time stamp is remembered before the file is opened. *)
Stat ==
    LET new == files[CONFIG_FILE].mtime
        changed == files[CONFIG_FILE] # Absent /\ new # old
    IN
    /\ phase = "stat"
    /\ old' = IF changed THEN new ELSE old
    /\ phase' = IF changed THEN "reopen" ELSE "sleep"
    /\ UNCHANGED <<startVars, editVars, count, clock, screenVars, lines, cfg>>

(* A file that has gone since stat saw it ends the program. *)
Reopen ==
    /\ phase = "reopen"
    /\ phase' = IF files[CONFIG_FILE] = Absent THEN "exited" ELSE "reread"
    /\ lines' = Readable(files[CONFIG_FILE])
    /\ UNCHANGED <<startVars, editVars, loopVars, cfg>>

RereadLineOrStop ==
    LET line == Head(lines) IN
    /\ phase = "reread" /\ lines # <<>>
    /\ cfg' = IF line.name \in Reloadable THEN [cfg EXCEPT ![line.name] = Value(line)] ELSE cfg
    /\ lines' = IF line.name \in Reloadable THEN Tail(lines) ELSE <<>>
    /\ UNCHANGED <<startVars, editVars, loopVars, phase>>

RereadLine ==
    LET line == Head(lines) IN
    /\ phase = "reread" /\ lines # <<>>
    /\ cfg' = IF line.name \in Reloadable THEN [cfg EXCEPT ![line.name] = Value(line)] ELSE cfg
    /\ lines' = Tail(lines)
    /\ UNCHANGED <<startVars, editVars, loopVars, phase>>

EndOfReread ==
    /\ phase = "reread" /\ lines = <<>>
    /\ phase' = "sleep"
    /\ UNCHANGED <<startVars, editVars, loopVars, lines, cfg>>

Sleep ==
    /\ phase = "sleep"
    /\ clock' = clock + 1
    /\ phase' = "show"
    /\ UNCHANGED <<startVars, editVars, old, count, screenVars, lines, cfg>>

-----------------------------------------------------------------------------
(* The editor. *)

Save(v) ==
    /\ phase # "exited" /\ saves < MaxSaves
    /\ files' = [files EXCEPT ![CONFIG_FILE] =
         [lines |-> v.lines, terminated |-> v.terminated, mtime |-> clock]]
    /\ resaved' = (resaved \/ clock \in {files[CONFIG_FILE].mtime, old})
    /\ saves' = saves + 1
    /\ UNCHANGED <<startVars, loopVars, phase, lines, cfg>>

Remove ==
    /\ phase # "exited" /\ saves < MaxSaves /\ files[CONFIG_FILE] # Absent
    /\ files' = [files EXCEPT ![CONFIG_FILE] = Absent]
    /\ saves' = saves + 1
    /\ UNCHANGED <<startVars, loopVars, resaved, phase, lines, cfg>>

Next ==
    \/ ScanArgs \/ OpenConfig \/ ReadLine \/ EndOfFile \/ ParseOption
    \/ CalcPeriod \/ CheckNums \/ StartManagers \/ StartParsers
    \/ StartGenerators \/ StartGeneratorsFails
    \/ Show \/ Stat \/ Reopen \/ RereadLine \/ EndOfReread \/ Sleep
    \/ \E v \in Saves : Save(v)
    \/ Remove

Spec == Init /\ [][Next]_vars

-----------------------------------------------------------------------------
(* What the comment in main promises, stated on the whole file and the     *)
(* whole command line: "1. the default, 2. the value of the file, 3. the   *)
(* value of the command line", each overriding the one before              *)
(* (simulation.c:150-157).                                                 *)

(* The field each entry of long_options is named for. *)
OptionMeans ==
    [generator_nums |-> "generator_nums", parser_nums |-> "parser_nums",
     manager_nums |-> "manager_nums", pktlen |-> "pktlen",
     gpool_size |-> "generator_pool_size", pqueue_length |-> "parser_queue_length",
     ppool_size |-> "parser_pool_size", mqueue_length |-> "manager_queue_length",
     mpool_size |-> "manager_pool_size", mhash_length |-> "manager_hash_length",
     mbuffer_size |-> "manager_buffer_size", packet_generator_mode |-> "packet_generator_mode"]

LastIn(s, T) == s[CHOOSE i \in T : \A j \in T : j <= i]

(* The options that are meant for a field. *)
Chosen(field) ==
    {i \in DOMAIN argv : argv[i].name \in DOMAIN OptionMeans /\ OptionMeans[argv[i].name] = field}

Bad(line) == line.name \in Ranges /\ line.nums = <<>>

Sets(line, field) ==
    \/ line.name = field /\ field \in Scalars /\ ~(field = "protocol" /\ line.nums = <<>>)
    \/ line.name \in Ranges /\ field \in {Low[line.name], High[line.name]}

(* The lines of the file that give a field a value. *)
Written(field) == {i \in DOMAIN source : Sets(source[i], field) /\ ~Bad(source[i])}

(* That value; a range without "+n" ends where it begins. *)
NumberFor(line, field) ==
    IF line.name \in Ranges /\ field = High[line.name] /\ Len(line.nums) = 2
    THEN line.nums[1] + line.nums[2] ELSE Value(line)

Topmost(field) ==
    IF Chosen(field) # {} THEN LastIn(argv, Chosen(field)).value
    ELSE IF Written(field) # {} THEN NumberFor(LastIn(source, Written(field)), field)
    ELSE Defaults[field]

(* What the program makes of the layers is not what main says in three     *)
(* cases.  parse_args takes the five options below and drops their values; *)
(* read_config_file drops what follows a blank address or port, and takes  *)
(* the end of an address range without "+n" from an uninitialized          *)
(* variable.                                                               *)
Dropped == {"ppool_size", "mqueue_length", "mpool_size", "mhash_length", "mbuffer_size"}

OpenEnded(field) ==
    /\ field \in {High[r] : r \in Addresses} /\ Written(field) # {}
    /\ Len(LastIn(source, Written(field)).nums) # 2

Excepted(field) ==
    \/ \E i \in Chosen(field) : argv[i].name \in Dropped
    \/ Chosen(field) = {} /\ (OpenEnded(field) \/ \E i \in DOMAIN source : Bad(source[i]))

(* Types hold, and once the threads run, every field that is not           *)
(* reloadable has for good the value of its topmost layer, outside the     *)
(* three exceptions; a file with a blank address or port takes nothing     *)
(* away from the options.  The period that paces the generators was        *)
(* computed from those values.                                             *)
LayersApplied ==
    /\ TypeOK
    /\ phase \in Running =>
      /\ \A field \in Fields \ Reloadable : ~Excepted(field) => cfg[field] = Topmost(field)
      /\ period = <<cfg.pktlen, cfg.speed, cfg.generator_nums>>

(* While the program runs, the numbers of threads in global_config are the *)
(* numbers that were started, every generator has a parser of its own, and *)
(* a generator's copy can be out of date only in a reloadable field.       *)
(* Sessions are cleaned according to the pipe_depth of the start-up, the   *)
(* one the copies keep, whatever has been reloaded since.                  *)
StartedAsConfigured ==
    phase \in Running =>
      /\ groups = [managers |-> cfg.manager_nums, parsers |-> cfg.parser_nums,
                   generators |-> cfg.generator_nums]
      /\ groups.generators <= groups.parsers
      /\ \A field \in Fields \ Reloadable : copied[field] = cfg[field]
      /\ cleaner = (copied.pipe_depth > CleanDepth)

(* If read_config_simple takes ./generator.conf for read, because its time *)
(* stamp is the remembered one, then what the file says is in force, even  *)
(* where main had read another file.  Two contents saved within a second   *)
(* of one another are the exception.                                       *)
ReloadInForce ==
    LET file == files[CONFIG_FILE]
        set(field) == {i \in DOMAIN Readable(file) : Readable(file)[i].name = field}
    IN (phase \in {"show", "sleep"} /\ file # Absent /\ file.mtime = old /\ ~resaved) =>
         \A field \in Reloadable :
           set(field) # {} => cfg[field] = Value(LastIn(file.lines, set(field)))

(* The display follows the file: an iteration that finds screen_display    *)
(* at 0 or 1, as the one before did, prints that screen, whatever was      *)
(* shown or reloaded earlier, and one that finds it changed prints nothing *)
(* of the old screen.                                                      *)
ScreenFollows ==
    \A v \in {0, 1} :
      before[2] = v =>
        /\ state = v + 1
        /\ before[1] = v => screen = ScreenOf(v + 1)
        /\ screen # ScreenOf(2 - v)
=============================================================================
