----------------------------- MODULE ConfigProofs -----------------------------
(***************************************************************************)
(* For every configuration file, command line, number of iterations and    *)
(* behaviour of the editor: the layers end up in global_config as main     *)
(* orders them, outside the exceptions Config names; the threads are       *)
(* started from them, the display loop has in force what it takes for      *)
(* read, and its screen follows screen_display.                            *)
(*                                                                         *)
(* The inductive invariant says, at each line and at each option, that     *)
(* cfg holds what the lines (options) read so far determine.               *)
(***************************************************************************)
EXTENDS Config, SequenceTheorems, WellFoundedInduction, TLAPS

Line == [name : STRING, nums : Seq(Int)]

(* What is still to be read is the end of what there was. *)
Suffix(t, s) ==
    /\ Len(t) <= Len(s)
    /\ \A i \in 1..Len(t) : t[i] = s[Len(s) - Len(t) + i]

(* What has been read of s when t is left. *)
Done(t, s) == 1..(Len(s) - Len(t))

(* The one that comes next. *)
Now(t, s) == Len(s) - Len(t) + 1

-----------------------------------------------------------------------------
(* What read_config_file and parse_args make of the layers.  LayersApplied *)
(* follows from it where it is what main promises.                         *)

(* The lines read_config_file gets to. *)
Reached(s) == {i \in DOMAIN s : \A j \in 1..i : ~Bad(s[j])}

Setting(s, field) == {i \in Reached(s) : Sets(s[i], field)}

(* What a field may be after the lines T of s that set it. *)
FromLines(s, T, field) ==
    IF T = {} THEN {Defaults[field]}
    ELSE LET line == LastIn(s, T) IN
         IF line.name \in Ranges /\ field = High[line.name] THEN Limits(line) ELSE {Value(line)}

FromFile(s, field) == FromLines(s, Setting(s, field), field)

(* The options parse_args assigns to a field. *)
Given(field) ==
    {i \in DOMAIN argv : argv[i].name \in DOMAIN OptionField /\ OptionField[argv[i].name] = field}

(* What it may be after the options T of argv that give it a value. *)
FromOptions(T, field) ==
    IF T # {} THEN {LastIn(argv, T).value} ELSE FromFile(source, field)

Layered(field) == FromOptions(Given(field), field)

-----------------------------------------------------------------------------
(* The inductive invariant. *)

Typed ==
    /\ TypeOK
    /\ lines \in Seq(Line) /\ source \in Seq(Line)
    /\ args \in Seq({argv[i] : i \in DOMAIN argv})
    /\ \A f \in Files : files[f].lines \in Seq(Line)
    /\ \A f \in Files : files[f] # Absent => files[f].mtime >= 1

(* An iteration of the display loop takes a second. *)
Clocked ==
    /\ clock + count \in {Rounds, Rounds + 1}
    /\ phase \notin {"stat", "reopen", "reread", "sleep", "exited"} => clock + count = Rounds + 1
    /\ phase \in {"stat", "reopen", "reread", "sleep"} => clock + count = Rounds

(* read_config_file: the lines it has passed have had their effect. *)
FileRead ==
    /\ phase \in {"scan", "open", "read"} => args = argv
    /\ phase \in {"scan", "open"} => cfg = Defaults
    /\ phase = "read" =>
         /\ Suffix(lines, source)
         /\ lines # <<>> => \A i \in Done(lines, source) : ~Bad(source[i])
         /\ \A field \in Fields :
              cfg[field] \in FromLines(source, Setting(source, field) \cap Done(lines, source), field)

(* parse_args: so have the options. *)
OptionsRead ==
    phase = "args" =>
      /\ Suffix(args, argv)
      /\ \A field \in Fields :
           cfg[field] \in FromOptions(Given(field) \cap Done(args, argv), field)

(* From there on only the reloadable fields change. *)
Settled ==
    /\ phase \in {"check", "managers", "parsers", "generators"} \cup Running =>
         /\ \A field \in Fields \ Reloadable : cfg[field] \in Layered(field)
         /\ period = <<cfg.pktlen, cfg.speed, cfg.generator_nums>>
    /\ phase \in {"managers", "parsers", "generators"} \cup Running =>
         cfg.generator_nums <= cfg.parser_nums
    /\ phase \in {"parsers", "generators"} =>
         groups.managers = cfg.manager_nums /\ cleaner = (cfg.pipe_depth > CleanDepth)
    /\ phase = "generators" => groups.parsers = cfg.parser_nums

(* read_config_simple, while ./generator.conf carries the remembered time. *)
Rewritten(s, field) == {i \in DOMAIN s : s[i].name = field}

InForce(s, T, field) == T # {} => cfg[field] = Value(LastIn(s, T))

Current == LET file == files[CONFIG_FILE] IN file # Absent /\ file.mtime = old /\ ~resaved

Reloaded ==
    LET s == Readable(files[CONFIG_FILE]) IN
    /\ phase \notin Running \cup {"exited"} => old = 0
    /\ phase = "reread" /\ Current =>
         /\ Suffix(lines, s)
         /\ \A field \in Reloadable :
              InForce(s, Rewritten(s, field) \cap Done(lines, s), field)
    /\ phase \in {"show", "stat", "sleep"} /\ Current =>
         \A field \in Reloadable : InForce(s, Rewritten(s, field), field)

IInv ==
    /\ Typed /\ Clocked
    /\ FileRead /\ OptionsRead /\ Settled
    /\ StartedAsConfigured
    /\ Reloaded
    /\ ScreenFollows

Starting == {"scan", "open", "read", "args", "check", "managers", "parsers", "generators"}

-----------------------------------------------------------------------------
(* Names. *)

(* Every field is a scalar or an end of one range, and the names that the  *)
(* definitions single out are told apart.                                  *)
LEMMA Names ==
    /\ Reloadable \subseteq Scalars /\ Scalars \subseteq Fields
    /\ Ranges \cap Fields = {}
    /\ \A r \in Ranges : Low[r] \in Fields /\ High[r] \in Fields /\ Low[r] # High[r]
    /\ \A r \in Ranges : Low[r] \notin Scalars /\ High[r] \notin Scalars
    /\ \A x \in DOMAIN OptionField : OptionField[x] \in Fields /\ x # "config"
    /\ {"pktlen", "speed", "generator_nums", "parser_nums", "manager_nums"}
         \subseteq Fields \ Reloadable
    /\ {"pipe_depth", "screen_display"} \subseteq Fields
<1>1. Reloadable \subseteq Scalars /\ Scalars \subseteq Fields
  BY DEF Scalars, Fields
<1>2. /\ {"pktlen", "speed", "generator_nums", "parser_nums", "manager_nums"}
           \subseteq Scalars \ Reloadable
      /\ {"pipe_depth", "screen_display"} \subseteq Scalars
  BY DEF Scalars, Reloadable
<1>3. ASSUME NEW r \in Ranges
      PROVE  /\ Low[r] \in Fields /\ High[r] \in Fields /\ Low[r] # High[r]
             /\ Low[r] \notin Scalars /\ High[r] \notin Scalars /\ r \notin Scalars
  <2>1. Low[r] \in Fields /\ High[r] \in Fields
    BY DEF Fields
  <2>2. r \in {"saddr", "daddr", "sport", "dport"}
    BY DEF Ranges, Addresses, Ports
  <2>3. /\ Low[r] \in {"saddr_min", "daddr_min", "sport_min", "dport_min"}
        /\ High[r] \in {"saddr_max", "daddr_max", "sport_max", "dport_max"}
    BY <2>2 DEF Low, High
  <2>4. Low[r] # High[r]
    BY <2>3
  <2>5. Low[r] \notin Scalars /\ High[r] \notin Scalars /\ r \notin Scalars
    BY <2>2, <2>3 DEF Scalars, Reloadable
  <2> QED BY <2>1, <2>4, <2>5
<1>4. Ranges \cap Fields = {}
  <2>1. SUFFICES ASSUME NEW r \in Ranges, NEW q \in Ranges
                 PROVE  r # Low[q] /\ r # High[q]
    BY <1>3 DEF Fields
  <2>2. r \in {"saddr", "daddr", "sport", "dport"} /\ q \in {"saddr", "daddr", "sport", "dport"}
    BY DEF Ranges, Addresses, Ports
  <2>3. /\ Low[q] \in {"saddr_min", "daddr_min", "sport_min", "dport_min"}
        /\ High[q] \in {"saddr_max", "daddr_max", "sport_max", "dport_max"}
    BY <2>2 DEF Low, High
  <2> QED BY <2>2, <2>3
<1>5. ASSUME NEW x \in DOMAIN OptionField
      PROVE  OptionField[x] \in Scalars /\ x # "config"
  <2>1. x \in {"generator_nums", "parser_nums", "manager_nums", "pktlen", "gpool_size",
               "pqueue_length", "packet_generator_mode"}
    BY DEF OptionField
  <2>2. OptionField[x] \in {"generator_nums", "parser_nums", "manager_nums", "pktlen",
            "generator_pool_size", "parser_queue_length", "packet_generator_mode"}
    BY <2>1 DEF OptionField
  <2> QED BY <2>1, <2>2 DEF Scalars
<1> QED BY <1>1, <1>2, <1>3, <1>4, <1>5

-----------------------------------------------------------------------------
(* Reading a sequence from its head. *)

(* A step moves the head from what is left to what is done. *)
LEMMA ReadHead ==
    ASSUME NEW S, NEW t \in Seq(S), NEW R, NEW s \in Seq(R), Suffix(t, s), t # <<>>
    PROVE  /\ Tail(t) \in Seq(S) /\ Head(t) \in S
           /\ Now(t, s) \in 1..Len(s) /\ Head(t) = s[Now(t, s)]
           /\ Done(t, s) = 1..(Now(t, s) - 1) /\ Done(Tail(t), s) = 1..Now(t, s)
           /\ Suffix(Tail(t), s)
<1>1. /\ Tail(t) \in Seq(S) /\ Head(t) \in S /\ Head(t) = t[1]
      /\ Len(Tail(t)) = Len(t) - 1
      /\ \A i \in 1..Len(Tail(t)) : Tail(t)[i] = t[i + 1]
  BY HeadTailProperties
<1>2. Len(t) \in Nat /\ Len(s) \in Nat /\ Len(t) # 0
  BY EmptySeq, LenProperties
<1>3. Len(t) <= Len(s) /\ \A i \in 1..Len(t) : t[i] = s[Len(s) - Len(t) + i]
  BY DEF Suffix
<1>4. ASSUME NEW i \in 1..Len(Tail(t)) PROVE Tail(t)[i] = s[Len(s) - Len(Tail(t)) + i]
  <2>1. Tail(t)[i] = t[i + 1] /\ i + 1 \in 1..Len(t)
    BY <1>1, <1>2
  <2>2. t[i + 1] = s[Len(s) - Len(t) + (i + 1)]
    BY <2>1, <1>3
  <2>3. Len(s) - Len(t) + (i + 1) = Len(s) - Len(Tail(t)) + i
    BY <1>1, <1>2
  <2> QED BY <2>1, <2>2, <2>3
<1>5. Suffix(Tail(t), s)
  BY <1>1, <1>2, <1>3, <1>4 DEF Suffix
<1>6. Head(t) = s[Now(t, s)] /\ Now(t, s) \in 1..Len(s)
  BY <1>1, <1>2, <1>3 DEF Now
<1>7. Done(t, s) = 1..(Now(t, s) - 1) /\ Done(Tail(t), s) = 1..Now(t, s)
  <2>1. Len(s) - Len(t) = Now(t, s) - 1 /\ Len(s) - Len(Tail(t)) = Now(t, s)
    BY <1>1, <1>2 DEF Now
  <2> QED BY <2>1 DEF Done
<1> QED BY <1>1, <1>5, <1>6, <1>7

(* At the start nothing is done, at the end everything. *)
LEMMA ReadAll ==
    ASSUME NEW S, NEW s \in Seq(S)
    PROVE  Suffix(s, s) /\ Done(s, s) = {} /\ Suffix(<<>>, s) /\ Done(<<>>, s) = DOMAIN s
<1>1. Len(s) \in Nat /\ DOMAIN s = 1..Len(s) /\ Len(<<>>) = 0
  BY LenProperties, EmptySeq
<1>2. Suffix(s, s) /\ Suffix(<<>>, s)
  BY <1>1 DEF Suffix
<1>3. Done(s, s) = {} /\ Done(<<>>, s) = DOMAIN s
  BY <1>1 DEF Done
<1> QED BY <1>2, <1>3

(* The last of some numbers and a larger one is the larger one. *)
LEMMA LastIsNew ==
    ASSUME NEW s, NEW k \in Int, NEW T, T \subseteq 1..(k - 1)
    PROVE  LastIn(s, T \cup {k}) = s[k]
<1> DEFINE i == CHOOSE i \in T \cup {k} : \A j \in T \cup {k} : j <= i
<1>1. \A j \in T \cup {k} : j <= k
  OBVIOUS
<1>2. i \in T \cup {k} /\ \A j \in T \cup {k} : j <= i
  BY <1>1
<1>3. i = k
  <2> HIDE DEF i
  <2>1. k <= i
    BY <1>2
  <2>2. ASSUME i \in T PROVE FALSE
    <3>1. i \in 1..(k - 1)
      BY <2>2
    <3> QED BY <2>1, <3>1
  <2> QED BY <1>2, <2>2
<1> QED BY <1>3 DEF LastIn

(* A set of positions of a sequence has a greatest element: otherwise the  *)
(* distances from the end of the sequence would have no least one.         *)
LEMMA Greatest ==
    ASSUME NEW n \in Nat, NEW T, T \subseteq 1..n, T # {}
    PROVE  \E i \in T : \A j \in T : j <= i
<1> DEFINE D == {n - i : i \in T}
           R == OpToRel(<, Nat)
<1>1. D \in SUBSET Nat /\ D # {}
  <2>1. ASSUME NEW i \in T PROVE n - i \in Nat
    <3>1. i \in 1..n
      OBVIOUS
    <3> QED BY <3>1
  <2> QED BY <2>1
<1>2. IsWellFoundedOn(R, Nat)
  BY NatLessThanWellFounded
<1>3. \A x, y \in Nat : <<x, y>> \in R <=> x < y
  BY DEF OpToRel
<1> HIDE DEF R, D
<1>4. PICK d \in D : \A e \in D : ~(<<e, d>> \in R)
  BY <1>1, <1>2, WFMin
<1>5. PICK i \in T : d = n - i
  BY <1>4 DEF D
<1>6. ASSUME NEW j \in T PROVE j <= i
  <2>1. n - j \in D /\ n - j \in Nat /\ d \in Nat
    BY <1>1, <1>4 DEF D
  <2>2. ~(n - j < d)
    BY <1>3, <1>4, <2>1
  <2>3. i \in Int /\ j \in Int
    OBVIOUS
  <2> QED BY <1>5, <2>2, <2>3
<1> QED BY <1>6

-----------------------------------------------------------------------------
(* Lines and options. *)

(* What the lines determine after one more of them has been read. *)
LEMMA NextLine ==
    ASSUME NEW s \in Seq(Line), NEW k \in 1..Len(s), NEW field,
           \A i \in 1..(k - 1) : ~Bad(s[i]), ~Bad(s[k])
    PROVE  /\ Sets(s[k], field) =>
                FromLines(s, Setting(s, field) \cap 1..k, field)
                  = IF s[k].name \in Ranges /\ field = High[s[k].name]
                    THEN Limits(s[k]) ELSE {Value(s[k])}
           /\ ~Sets(s[k], field) =>
                Setting(s, field) \cap 1..k = Setting(s, field) \cap 1..(k - 1)
<1> DEFINE T == Setting(s, field) \cap 1..(k - 1)
<1>1. DOMAIN s = 1..Len(s) /\ Len(s) \in Nat /\ k \in Int
  BY LenProperties
<1>2. 1..k = 1..(k - 1) \cup {k}
  BY <1>1
<1>3. k \in Reached(s)
  BY <1>1, <1>2 DEF Reached
<1>4. k \in Setting(s, field) <=> Sets(s[k], field)
  BY <1>3 DEF Setting
<1>5. CASE Sets(s[k], field)
  <2>1. Setting(s, field) \cap 1..k = T \cup {k}
    BY <1>2, <1>4, <1>5
  <2>2. LastIn(s, T \cup {k}) = s[k]
    BY <1>1, LastIsNew
  <2>3. T \cup {k} # {}
    OBVIOUS
  <2> HIDE DEF T
  <2> QED BY <1>5, <2>1, <2>2, <2>3 DEF FromLines
<1>6. CASE ~Sets(s[k], field)
  BY <1>2, <1>4, <1>6
<1> QED BY <1>5, <1>6

(* A line that ends the reading: the lines from it on determine nothing. *)
LEMMA NoLineAfter ==
    ASSUME NEW s \in Seq(Line), NEW k \in 1..Len(s), NEW field, Bad(s[k])
    PROVE  Setting(s, field) \cap DOMAIN s = Setting(s, field) \cap 1..(k - 1)
<1>1. DOMAIN s = 1..Len(s) /\ Len(s) \in Nat /\ k \in Int
  BY LenProperties
<1>2. ASSUME NEW i \in Setting(s, field) PROVE i \in 1..(k - 1)
  <2>1. i \in DOMAIN s /\ \A j \in 1..i : ~Bad(s[j])
    BY DEF Setting, Reached
  <2>2. i \in Int /\ 1 <= i /\ k \notin 1..i
    BY <1>1, <2>1
  <2> QED BY <1>1, <2>2
<1>3. 1..(k - 1) \subseteq DOMAIN s
  BY <1>1
<1> QED BY <1>2, <1>3

(* What the options determine after one more of them has been parsed. *)
LEMMA NextOption ==
    ASSUME NEW k \in DOMAIN argv, DOMAIN argv = 1..Len(argv), Len(argv) \in Nat, NEW field
    PROVE  /\ k \in Given(field) =>
                FromOptions(Given(field) \cap 1..k, field) = {argv[k].value}
           /\ k \notin Given(field) =>
                Given(field) \cap 1..k = Given(field) \cap 1..(k - 1)
<1> DEFINE T == Given(field) \cap 1..(k - 1)
<1>1. 1..k = 1..(k - 1) \cup {k} /\ k \in Int
  OBVIOUS
<1>2. CASE k \in Given(field)
  <2>1. Given(field) \cap 1..k = T \cup {k}
    BY <1>1, <1>2
  <2>2. LastIn(argv, T \cup {k}) = argv[k]
    BY <1>1, LastIsNew
  <2>3. T \cup {k} # {}
    OBVIOUS
  <2> HIDE DEF T
  <2> QED BY <1>2, <2>1, <2>2, <2>3 DEF FromOptions
<1>3. CASE k \notin Given(field)
  BY <1>1, <1>3
<1> QED BY <1>2, <1>3

(* The same for the reloadable fields in read_config_simple. *)
LEMMA NextRewrite ==
    ASSUME NEW s \in Seq(Line), NEW k \in 1..Len(s), NEW field
    PROVE  /\ s[k].name = field =>
                /\ LastIn(s, Rewritten(s, field) \cap 1..k) = s[k]
                /\ Rewritten(s, field) \cap 1..k # {}
           /\ s[k].name # field =>
                Rewritten(s, field) \cap 1..k = Rewritten(s, field) \cap 1..(k - 1)
<1> DEFINE T == Rewritten(s, field) \cap 1..(k - 1)
<1>1. DOMAIN s = 1..Len(s) /\ Len(s) \in Nat /\ k \in Int
  BY LenProperties
<1>2. 1..k = 1..(k - 1) \cup {k}
  BY <1>1
<1>3. k \in Rewritten(s, field) <=> s[k].name = field
  BY <1>1 DEF Rewritten
<1>4. CASE s[k].name = field
  <2>1. Rewritten(s, field) \cap 1..k = T \cup {k}
    BY <1>2, <1>3, <1>4
  <2>2. LastIn(s, T \cup {k}) = s[k]
    BY <1>1, LastIsNew
  <2> HIDE DEF T
  <2> QED BY <1>4, <2>1, <2>2
<1>5. CASE s[k].name # field
  BY <1>2, <1>3, <1>5
<1> QED BY <1>4, <1>5

(* fgets hands out the lines of the file in order. *)
LEMMA ReadableLines ==
    ASSUME NEW file, file.lines \in Seq(Line)
    PROVE  /\ Readable(file) \in Seq(Line)
           /\ \A i \in DOMAIN Readable(file) : Readable(file)[i] = file.lines[i]
<1>1. CASE file.terminated \/ file.lines = <<>>
  BY <1>1 DEF Readable
<1>2. CASE ~(file.terminated \/ file.lines = <<>>)
  <2> DEFINE s == file.lines
             n == Len(s) - 1
  <2>1. Len(s) \in Nat /\ DOMAIN s = 1..Len(s) /\ \A i \in 1..Len(s) : s[i] \in Line
    BY LenProperties, ElementOfSeq
  <2>2. n \in Int /\ \A i \in 1..n : s[i] \in Line
    BY <2>1
  <2>3. Readable(file) = SubSeq(s, 1, n)
    BY <1>2 DEF Readable
  <2> HIDE DEF n, s
  <2>4. /\ SubSeq(s, 1, n) \in Seq(Line)
        /\ Len(SubSeq(s, 1, n)) = IF 1 <= n THEN n - 1 + 1 ELSE 0
        /\ \A i \in 1..(n - 1 + 1) : SubSeq(s, 1, n)[i] = s[1 + i - 1]
    BY <2>2, SubSeqProperties
  <2>5. DOMAIN SubSeq(s, 1, n) = 1..Len(SubSeq(s, 1, n))
    BY <2>4, LenProperties
  <2>6. ASSUME NEW i \in DOMAIN SubSeq(s, 1, n) PROVE SubSeq(s, 1, n)[i] = s[i]
    <3>1. i \in 1..(n - 1 + 1) /\ 1 + i - 1 = i
      BY <2>2, <2>4, <2>5, <2>6
    <3> QED BY <2>4, <3>1
  <2> QED BY <2>3, <2>4, <2>6 DEF s
<1> QED BY <1>1, <1>2

(* The numbers of a line are integers. *)
LEMMA Numbers ==
    ASSUME NEW line \in Line
    PROVE  /\ line.name \in STRING /\ line.nums \in Seq(Int) /\ Value(line) \in Int
           /\ line.nums # <<>> => line.nums[1] \in Int /\ Value(line) = line.nums[1]
           /\ line.nums # <<>> => Limits(line) \subseteq Int
<1>1. line.name \in STRING /\ line.nums \in Seq(Int)
  BY DEF Line
<1>2. Len(line.nums) \in Nat /\ \A i \in 1..Len(line.nums) : line.nums[i] \in Int
  BY <1>1, LenProperties, ElementOfSeq
<1>3. ASSUME line.nums # <<>>
      PROVE  line.nums[1] \in Int /\ Value(line) = line.nums[1] /\ Limits(line) \subseteq Int
  <2>1. Len(line.nums) # 0
    BY <1>1, <1>3, EmptySeq
  <2>2. line.nums[1] \in Int /\ Value(line) = line.nums[1]
    BY <1>2, <1>3, <2>1 DEF Value
  <2>3. Len(line.nums) = 2 => line.nums[1] + line.nums[2] \in Int
    BY <1>2, <2>2
  <2> QED BY <2>2, <2>3, ConfigAssumption DEF Limits
<1>4. Value(line) \in Int
  BY <1>3 DEF Value
<1> QED BY <1>1, <1>3, <1>4

-----------------------------------------------------------------------------
(* What whole groups of actions leave alone. *)

(* The layers depend on the command line and the file that was read. *)
LEMMA LayersKept ==
    ASSUME argv' = argv, source' = source
    PROVE  \A field : Layered(field)' = Layered(field)
BY DEF Layered, FromOptions, Given, FromFile, LastIn

(* Before the display loop starts, nothing of it changes. *)
LEMMA StartStep ==
    ASSUME IInv, phase \in Starting, phase' \in Starting \cup {"exited"},
           UNCHANGED <<editVars, loopVars>>
    PROVE  Clocked' /\ StartedAsConfigured' /\ Reloaded' /\ ScreenFollows'
<1> USE DEF IInv, editVars, loopVars, screenVars
<1>1. phase \notin Running \cup {"exited"} /\ phase' \notin Running
  BY DEF Starting, Running
<1>2. Clocked'
  <2>1. /\ clock' = clock /\ count' = count /\ clock + count = Rounds + 1
        /\ phase' \notin {"stat", "reopen", "reread", "sleep"}
    BY <1>1 DEF Clocked, Running
  <2> QED BY <2>1 DEF Clocked
<1>3. StartedAsConfigured'
  BY <1>1 DEF StartedAsConfigured
<1>4. Reloaded'
  <2>1. old' = 0 /\ phase' \notin {"reread", "show", "stat", "sleep"}
    BY <1>1 DEF Reloaded, Running
  <2> QED BY <2>1 DEF Reloaded
<1>5. ScreenFollows'
  BY DEF ScreenFollows
<1> QED BY <1>2, <1>3, <1>4, <1>5

(* After that, nothing but the reloadable fields changes. *)
LEMMA LoopStep ==
    ASSUME IInv, phase \in Running, phase' \in Running \cup {"exited"}, UNCHANGED startVars,
           \A field \in Fields \ Reloadable : cfg'[field] = cfg[field]
    PROVE  FileRead' /\ OptionsRead' /\ Settled' /\ StartedAsConfigured'
<1> USE DEF IInv, startVars
<1>1. phase' \notin {"scan", "open", "read", "args", "check", "managers", "parsers", "generators"}
  BY DEF Running
<1>2. FileRead' /\ OptionsRead'
  BY <1>1 DEF FileRead, OptionsRead
<1>3. /\ cfg'.pktlen = cfg.pktlen /\ cfg'.speed = cfg.speed
      /\ cfg'.generator_nums = cfg.generator_nums /\ cfg'.parser_nums = cfg.parser_nums
      /\ cfg'.manager_nums = cfg.manager_nums
  BY Names
<1>4. \A field : Layered(field)' = Layered(field)
  BY LayersKept
<1>5. Settled'
  BY <1>1, <1>3, <1>4 DEF Settled
<1>6. StartedAsConfigured'
  BY <1>3 DEF StartedAsConfigured
<1> QED BY <1>2, <1>5, <1>6

(* The editor changes the files and nothing else. *)
LEMMA EditStep ==
    ASSUME IInv, UNCHANGED <<startVars, loopVars, phase, lines, cfg>>
    PROVE  /\ Clocked' /\ FileRead' /\ OptionsRead' /\ Settled'
           /\ StartedAsConfigured' /\ ScreenFollows'
<1> USE DEF IInv, startVars, loopVars, screenVars
<1>1. \A field : Layered(field)' = Layered(field)
  BY LayersKept
<1>2. Clocked' /\ ScreenFollows' /\ StartedAsConfigured'
  BY DEF Clocked, ScreenFollows, StartedAsConfigured
<1>3. FileRead'
  BY DEF FileRead
<1>4. \A T, field : FromOptions(T, field)' = FromOptions(T, field)
  BY DEF FromOptions, FromFile
<1>5. \A field : Given(field)' = Given(field)
  BY DEF Given
<1>6. OptionsRead'
  BY <1>4, <1>5 DEF OptionsRead
<1>7. Settled'
  BY <1>1 DEF Settled
<1> QED BY <1>2, <1>3, <1>6, <1>7

(* Types, where neither the editor nor the display loop moves. *)
LEMMA StartTyped ==
    ASSUME Typed, UNCHANGED <<editVars, loopVars>>, UNCHANGED <<argv, config_file>>,
           phase' \in Starting \cup Running \cup {"exited"},
           lines' \in Seq(Line), source' \in Seq(Line), args' \in Seq({argv[i] : i \in DOMAIN argv}),
           cfg' \in [Fields -> Int], copied' \in [Fields -> Int],
           groups' \in [managers : Int, parsers : Int, generators : Int], cleaner' \in BOOLEAN
    PROVE  Typed'
<1>1. TypeOK'
  <2>1. TypeOK
    BY DEF Typed
  <2>2. /\ files' = files /\ saves' = saves /\ resaved' = resaved
        /\ old' = old /\ count' = count /\ clock' = clock
        /\ state' = state /\ screen' = screen /\ before' = before
    BY DEF editVars, loopVars, screenVars
  <2>3. phase' \in {"scan", "open", "read", "args", "check", "managers", "parsers",
                    "generators", "exited"} \cup Running
    BY DEF Starting
  <2> QED BY <2>1, <2>2, <2>3 DEF TypeOK
<1> QED BY <1>1 DEF Typed, editVars

(* The types that StartTyped asks for. *)
LEMMA TypedParts ==
    ASSUME Typed
    PROVE  /\ lines \in Seq(Line) /\ source \in Seq(Line)
           /\ args \in Seq({argv[i] : i \in DOMAIN argv})
           /\ cfg \in [Fields -> Int] /\ copied \in [Fields -> Int] /\ cleaner \in BOOLEAN
           /\ groups \in [managers : Int, parsers : Int, generators : Int]
BY DEF Typed, TypeOK

-----------------------------------------------------------------------------
(* main *)

(* An option that parse_args honours has a number. *)
LEMMA OptionTypes ==
    ASSUME argv \in Argvs
    PROVE  /\ argv \in Seq({argv[i] : i \in DOMAIN argv})
           /\ DOMAIN argv = 1..Len(argv) /\ Len(argv) \in Nat
           /\ \A i \in DOMAIN argv : argv[i].name = "config" => argv[i].value \in Files
           /\ \A i \in DOMAIN argv : argv[i].name \in DOMAIN OptionField => argv[i].value \in Int
<1>1. argv \in Seq({argv[i] : i \in DOMAIN argv})
  BY ConfigAssumption
<1>2. DOMAIN argv = 1..Len(argv) /\ Len(argv) \in Nat
  BY <1>1, LenProperties
<1>3. ASSUME NEW i \in DOMAIN argv
      PROVE  /\ argv[i].name = "config" => argv[i].value \in Files
             /\ argv[i].name \in DOMAIN OptionField => argv[i].value \in Int
  <2>1. argv[i].value \in IF argv[i].name = "config" THEN Files ELSE Int
    BY ConfigAssumption
  <2> QED BY <2>1, Names
<1> QED BY <1>1, <1>2, <1>3

(* Contents are sequences of lines. *)
LEMMA VersionLines ==
    ASSUME NEW v \in Versions
    PROVE  v.lines \in Seq(Line) /\ v.terminated \in BOOLEAN
BY ConfigAssumption DEF FileType, Line

(* The initial states satisfy the invariant. *)
LEMMA InitHolds == Init => IInv
<1> SUFFICES ASSUME Init PROVE IInv
  OBVIOUS
<1> USE DEF Init
<1>1. Rounds \in Nat /\ MaxSaves \in Nat /\ Defaults \in [Fields -> Int]
  BY ConfigAssumption
<1>2. CONFIG_FILE \in Files
  BY DEF Files
<1>3. Typed
  <2>1. ASSUME NEW f \in Files
        PROVE  /\ files[f] \in [lines : {v.lines : v \in Versions} \cup {<<>>},
                                terminated : BOOLEAN, mtime : 0..(Rounds + 1)]
               /\ files[f].lines \in Seq(Line)
               /\ files[f] # Absent => files[f].mtime >= 1
    <3>1. CASE files[f] = Absent
      BY <3>1, <1>1, EmptySeq DEF Absent
    <3>2. CASE files[f] # Absent
      <4>1. PICK v \in Versions :
                 files[f] = [lines |-> v.lines, terminated |-> v.terminated, mtime |-> 1]
        BY <3>2
      <4> QED BY <4>1, <1>1, VersionLines
    <3> QED BY <3>1, <3>2
  <2>2. files \in [Files -> [lines : {v.lines : v \in Versions} \cup {<<>>},
                             terminated : BOOLEAN, mtime : 0..(Rounds + 1)]]
    BY <2>1
  <2>3. groups \in [managers : Int, parsers : Int, generators : Int]
    BY DEF NoGroups
  <2>4. before \in Int \X Int
    OBVIOUS
  <2>5. TypeOK
    <3>1. /\ old \in 0..(Rounds + 1) /\ count \in 0..Rounds /\ clock \in 1..(Rounds + 1)
          /\ saves \in 0..MaxSaves /\ state \in 0..2
      BY <1>1
    <3>2. cfg \in [Fields -> Int] /\ copied \in [Fields -> Int]
      BY <1>1
    <3>3. /\ argv \in Argvs /\ config_file \in Files /\ screen \in {"none", "gen", "gpm"}
          /\ cleaner \in BOOLEAN /\ resaved \in BOOLEAN
          /\ phase \in {"scan", "open", "read", "args", "check", "managers", "parsers",
                        "generators", "exited"} \cup Running
      BY <1>2
    <3> QED BY <2>2, <2>3, <2>4, <3>1, <3>2, <3>3 DEF TypeOK
  <2>6. args \in Seq({argv[i] : i \in DOMAIN argv})
    BY OptionTypes
  <2>7. <<>> \in Seq(Line)
    BY EmptySeq
  <2> QED BY <2>1, <2>5, <2>6, <2>7 DEF Typed
<1>4. Clocked
  BY <1>1 DEF Clocked
<1>5. FileRead /\ OptionsRead /\ Settled
  BY DEF FileRead, OptionsRead, Settled, Running
<1>6. StartedAsConfigured /\ Reloaded
  BY DEF StartedAsConfigured, Reloaded, Running
<1>7. ScreenFollows
  BY DEF ScreenFollows
<1> QED BY <1>3, <1>4, <1>5, <1>6, <1>7 DEF IInv

(* main looks for --config: no field is touched. *)
LEMMA ScanArgsStep == ASSUME IInv, ScanArgs PROVE IInv'
<1> USE DEF IInv
<1>1. /\ phase = "scan" /\ phase' = "open" /\ UNCHANGED <<editVars, loopVars>>
      /\ UNCHANGED <<argv, args, source, period, groups, copied, cleaner, lines, cfg>>
  BY DEF ScanArgs
<1>2. Clocked' /\ StartedAsConfigured' /\ Reloaded' /\ ScreenFollows'
  BY <1>1, StartStep DEF Starting
<1>3. FileRead' /\ OptionsRead' /\ Settled'
  BY <1>1 DEF FileRead, OptionsRead, Settled, Running
<1>4. config_file' \in Files
  <2> DEFINE named == {i \in DOMAIN argv : argv[i].name = "config"}
             last == CHOOSE i \in named : \A j \in named : j <= i
  <2>1. config_file' = IF named = {} THEN CONFIG_FILE ELSE argv[last].value
    BY DEF ScanArgs
  <2>2. CASE named = {}
    BY <2>1, <2>2 DEF Files
  <2>3. CASE named # {}
    <3>1. /\ argv \in Seq({argv[i] : i \in DOMAIN argv})
          /\ DOMAIN argv = 1..Len(argv) /\ Len(argv) \in Nat
          /\ \A i \in DOMAIN argv : argv[i].name = "config" => argv[i].value \in Files
      BY OptionTypes DEF Typed, TypeOK
    <3>2. \E i \in named : \A j \in named : j <= i
      BY <2>3, <3>1, Greatest
    <3>3. last \in named
      BY <3>2
    <3> QED BY <2>1, <2>3, <3>1, <3>3
  <2> QED BY <2>2, <2>3
<1>5. Typed'
  BY SMTT(30), <1>1, <1>4 DEF Typed, TypeOK, editVars, loopVars, screenVars
<1> QED BY <1>2, <1>3, <1>5

(* read_config_file opens its file: no line has been read yet. *)
LEMMA OpenConfigStep == ASSUME IInv, OpenConfig PROVE IInv'
<1> USE DEF IInv
<1> DEFINE s == Readable(files[config_file])
<1>1. /\ phase = "open" /\ phase' \in {"exited", "read"} /\ UNCHANGED <<editVars, loopVars>>
      /\ UNCHANGED <<argv, config_file, args, period, groups, copied, cleaner, cfg>>
      /\ lines' = s /\ source' = s
  BY DEF OpenConfig
<1>2. Clocked' /\ StartedAsConfigured' /\ Reloaded' /\ ScreenFollows'
  BY <1>1, StartStep DEF Starting
<1>3. s \in Seq(Line)
  <2>1. files[config_file].lines \in Seq(Line)
    BY DEF Typed, TypeOK
  <2> QED BY <2>1, ReadableLines
<1>4. Typed'
  BY SMTT(30), <1>1, <1>3 DEF Typed, TypeOK, editVars, loopVars, screenVars
<1>5. FileRead'
  <2>1. Suffix(s, s) /\ Done(s, s) = {}
    BY <1>3, ReadAll
  <2>2. cfg' = Defaults /\ args' = argv'
    BY <1>1 DEF FileRead
  <2>3. \A field \in Fields :
          cfg'[field] \in FromLines(s, Setting(s, field) \cap Done(s, s), field)
    BY <2>1, <2>2 DEF FromLines
  <2> HIDE DEF s
  <2> QED BY <1>1, <2>1, <2>2, <2>3 DEF FileRead
<1>6. OptionsRead' /\ Settled'
  BY <1>1 DEF OptionsRead, Settled, Running
<1> QED BY <1>2, <1>4, <1>5, <1>6

(* What a line does to a field agrees with what the lines up to it         *)
(* determine.                                                              *)
LEMMA ReadLineSets ==
    ASSUME IInv, ReadLine, phase' = "read", NEW field \in Fields
    PROVE  cfg'[field] \in FromLines(source, Setting(source, field) \cap Done(lines', source), field)
<1> USE DEF IInv
<1> DEFINE k == Now(lines, source)
           line == Head(lines)
           T == Setting(source, field)
<1>1. /\ phase = "read" /\ lines # <<>>
      /\ SetScalar(line) \/ SetRange(line) \/ BadRange(line) \/ SkipLine(line)
  BY DEF ReadLine
<1>2. /\ lines \in Seq(Line) /\ source \in Seq(Line) /\ cfg \in [Fields -> Int]
      /\ Suffix(lines, source) /\ \A i \in Done(lines, source) : ~Bad(source[i])
      /\ cfg[field] \in FromLines(source, T \cap Done(lines, source), field)
  BY <1>1 DEF Typed, TypeOK, FileRead
<1>3. /\ line \in Line /\ k \in 1..Len(source) /\ line = source[k]
      /\ Done(lines, source) = 1..(k - 1) /\ Done(Tail(lines), source) = 1..k
  BY <1>1, <1>2, ReadHead
<1> HIDE DEF k, line
<1>4. ~Bad(line) =>
        /\ Sets(line, field) =>
             FromLines(source, T \cap 1..k, field)
               = IF line.name \in Ranges /\ field = High[line.name] THEN Limits(line) ELSE {Value(line)}
        /\ ~Sets(line, field) => T \cap 1..k = T \cap 1..(k - 1)
  BY ZenonT(40), <1>2, <1>3, NextLine
<1> SUFFICES cfg'[field] \in FromLines(source, T \cap Done(lines', source), field)
  OBVIOUS
<1> HIDE DEF T
<1>5. CASE SetScalar(line)
  <2>1. /\ line.name \in Scalars /\ line.name \in Fields /\ line.name \notin Ranges /\ ~Bad(line)
        /\ lines' = Tail(lines)
        /\ cfg' = IF line.name = "protocol" /\ line.nums = <<>> THEN cfg
                  ELSE [cfg EXCEPT ![line.name] = Value(line)]
    BY <1>5, Names DEF SetScalar, Bad
  <2>2. Sets(line, field) <=> line.name = field /\ ~(field = "protocol" /\ line.nums = <<>>)
    BY <2>1 DEF Sets
  <2>3. CASE Sets(line, field)
    <3>1. cfg'[field] = Value(line)
      BY <1>2, <2>1, <2>2, <2>3
    <3>2. FromLines(source, T \cap 1..k, field) = {Value(line)}
      BY <1>4, <2>1, <2>3
    <3> QED BY <1>3, <2>1, <3>1, <3>2
  <2>4. CASE ~Sets(line, field)
    <3>1. cfg'[field] = cfg[field]
      BY <1>2, <2>1, <2>2, <2>4
    <3> QED BY <1>2, <1>3, <1>4, <2>1, <2>4, <3>1
  <2> QED BY <2>3, <2>4
<1>6. CASE SetRange(line)
  <2>1. PICK limit \in Limits(line) :
          cfg' = [cfg EXCEPT ![Low[line.name]] = line.nums[1], ![High[line.name]] = limit]
    BY <1>6 DEF SetRange
  <2>2. /\ line.name \in Ranges /\ line.name \notin Scalars /\ ~Bad(line) /\ lines' = Tail(lines)
        /\ Low[line.name] \in Fields /\ High[line.name] \in Fields
        /\ Low[line.name] # High[line.name]
        /\ Value(line) = line.nums[1]
    BY <1>3, <1>6, Names, Numbers DEF SetRange, Bad
  <2>3. Sets(line, field) <=> field \in {Low[line.name], High[line.name]}
    BY <2>2 DEF Sets
  <2>4. /\ field = High[line.name] => cfg'[field] = limit
        /\ field = Low[line.name] => cfg'[field] = Value(line)
        /\ field \notin {Low[line.name], High[line.name]} => cfg'[field] = cfg[field]
    BY <1>2, <2>1, <2>2
  <2>5. CASE field = High[line.name]
    <3>1. FromLines(source, T \cap 1..k, field) = Limits(line)
      BY <1>4, <2>2, <2>3, <2>5
    <3> QED BY <1>3, <2>2, <2>4, <2>5, <3>1
  <2>6. CASE field = Low[line.name]
    <3>1. FromLines(source, T \cap 1..k, field) = {Value(line)}
      BY <1>4, <2>2, <2>3, <2>6
    <3> QED BY <1>3, <2>2, <2>4, <2>6, <3>1
  <2>7. CASE field \notin {Low[line.name], High[line.name]}
    BY <1>2, <1>3, <1>4, <2>2, <2>3, <2>4, <2>7
  <2> QED BY <2>5, <2>6, <2>7
<1>7. CASE BadRange(line)
  <2>1. Bad(source[k]) /\ lines' = <<>> /\ cfg' = cfg
    BY <1>3, <1>7 DEF BadRange, Bad
  <2>2. T \cap Done(<<>>, source) = T \cap 1..(k - 1)
    BY <1>2, <1>3, <2>1, ReadAll, NoLineAfter DEF T
  <2> QED BY <1>2, <1>3, <2>1, <2>2
<1>8. CASE SkipLine(line)
  <2>1. ~Bad(line) /\ ~Sets(line, field) /\ lines' = Tail(lines) /\ cfg' = cfg
    BY <1>8 DEF SkipLine, Bad, Sets
  <2> QED BY <1>2, <1>3, <1>4, <2>1
<1> QED BY <1>1, <1>5, <1>6, <1>7, <1>8

(* A line has its effect on the field it names, and counts as read. *)
LEMMA ReadLineStep == ASSUME IInv, ReadLine PROVE IInv'
<1> USE DEF IInv
<1> DEFINE line == Head(lines)
<1>1. /\ phase = "read" /\ lines # <<>> /\ UNCHANGED <<startVars, editVars, loopVars>>
      /\ SetScalar(line) \/ SetRange(line) \/ BadRange(line) \/ SkipLine(line)
  BY DEF ReadLine
<1>2. /\ lines \in Seq(Line) /\ source \in Seq(Line) /\ cfg \in [Fields -> Int]
      /\ Suffix(lines, source) /\ \A i \in Done(lines, source) : ~Bad(source[i])
      /\ source' = source /\ args' = argv' /\ argv' = argv
  BY <1>1 DEF Typed, TypeOK, FileRead, startVars
<1>3. /\ line \in Line /\ Now(lines, source) \in 1..Len(source) /\ line = source[Now(lines, source)]
      /\ Done(lines, source) = 1..(Now(lines, source) - 1)
      /\ Done(Tail(lines), source) = 1..Now(lines, source)
      /\ Tail(lines) \in Seq(Line) /\ Suffix(Tail(lines), source)
  BY <1>1, <1>2, ReadHead
<1> HIDE DEF line
<1>4. Value(line) \in Int /\ (line.nums # <<>> => line.nums[1] \in Int /\ Limits(line) \subseteq Int)
  BY <1>3, Numbers
<1>5. phase' \in {"read", "exited"} /\ lines' \in {Tail(lines), <<>>}
  BY <1>1 DEF SetScalar, SetRange, BadRange, SkipLine
<1>6. cfg' \in [Fields -> Int]
  <2>1. CASE SetScalar(line)
    BY <1>2, <1>4, <2>1 DEF SetScalar
  <2>2. CASE SetRange(line)
    BY <1>2, <1>4, <2>2 DEF SetRange
  <2>3. CASE BadRange(line) \/ SkipLine(line)
    BY <1>2, <2>3 DEF BadRange, SkipLine
  <2> QED BY <1>1, <2>1, <2>2, <2>3
<1>7. lines' \in Seq(Line) /\ Suffix(lines', source)
  BY <1>2, <1>3, <1>5, ReadAll, EmptySeq
<1>8. ASSUME lines' # <<>>, NEW i \in Done(lines', source) PROVE ~Bad(source[i])
  <2>1. lines' = Tail(lines)
    BY <1>5, <1>8
  <2>2. ~BadRange(line)
    BY <1>8 DEF BadRange
  <2>3. ~Bad(line)
    BY <1>1, <2>2, Names DEF SetScalar, SetRange, SkipLine, Bad
  <2>4. i \in 1..Now(lines, source)
    BY <1>3, <1>8, <2>1
  <2>5. i \in 1..(Now(lines, source) - 1) \/ i = Now(lines, source)
    BY <1>3, <2>4
  <2> QED BY <1>2, <1>3, <2>3, <2>5
<1>9. Clocked' /\ StartedAsConfigured' /\ Reloaded' /\ ScreenFollows'
  BY <1>1, <1>5, StartStep DEF Starting
<1>10. Typed'
  <2>1. /\ UNCHANGED <<argv, config_file, args, source, period, groups, copied, cleaner>>
        /\ UNCHANGED <<files, saves, resaved>> /\ UNCHANGED <<old, count, clock, state, screen, before>>
    BY <1>1 DEF startVars, editVars, loopVars, screenVars
  <2>2. Typed
    BY DEF IInv
  <2>3. TypeOK'
    BY <1>5, <1>6, <2>1, <2>2 DEF Typed, TypeOK
  <2> QED BY <1>7, <2>1, <2>2, <2>3 DEF Typed
<1>11. FileRead'
  <2>1. phase' = "read" => \A field \in Fields :
           cfg'[field] \in FromLines(source, Setting(source, field) \cap Done(lines', source), field)
    BY ReadLineSets
  <2> QED BY <1>2, <1>5, <1>7, <1>8, <2>1 DEF FileRead
<1>12. OptionsRead' /\ Settled'
  BY <1>5 DEF OptionsRead, Settled, Running
<1> QED BY <1>9, <1>10, <1>11, <1>12

(* All lines are read: what parse_args starts from is what the file leaves. *)
LEMMA EndOfFileStep == ASSUME IInv, EndOfFile PROVE IInv'
<1> USE DEF IInv
<1>1. /\ phase = "read" /\ phase' = "args" /\ lines = <<>>
      /\ UNCHANGED <<startVars, editVars, loopVars, lines, cfg>>
  BY DEF EndOfFile
<1>2. Clocked' /\ StartedAsConfigured' /\ Reloaded' /\ ScreenFollows'
  BY <1>1, StartStep DEF Starting
<1>3. Typed'
  BY <1>1 DEF Typed, TypeOK, startVars, editVars, loopVars, screenVars
<1>4. FileRead' /\ Settled'
  BY <1>1 DEF FileRead, Settled, Running
<1>5. OptionsRead'
  <2>1. argv \in Seq({argv[i] : i \in DOMAIN argv}) /\ args = argv /\ source \in Seq(Line)
    BY <1>1, OptionTypes DEF Typed, TypeOK, FileRead
  <2>2. Suffix(args, argv) /\ Done(args, argv) = {}
    BY <2>1, ReadAll
  <2>3. ASSUME NEW field \in Fields
        PROVE  cfg[field] \in FromOptions(Given(field) \cap Done(args, argv), field)
    <3>1. Setting(source, field) \cap Done(<<>>, source) = Setting(source, field)
      BY <2>1, ReadAll DEF Setting, Reached
    <3>2. cfg[field] \in FromFile(source, field)
      BY <1>1, <3>1 DEF FileRead, FromFile
    <3> QED BY <2>2, <3>2 DEF FromOptions
  <2>4. \A T, field : FromOptions(T, field)' = FromOptions(T, field)
    BY <1>1 DEF FromOptions, FromFile, startVars
  <2>5. \A field : Given(field)' = Given(field)
    BY <1>1 DEF Given, startVars
  <2> QED BY <1>1, <2>2, <2>3, <2>4, <2>5 DEF OptionsRead, startVars
<1> QED BY <1>2, <1>3, <1>4, <1>5

(* An option overrides its field, and counts as read. *)
LEMMA ParseOptionStep == ASSUME IInv, ParseOption PROVE IInv'
<1> USE DEF IInv
<1> DEFINE k == Now(args, argv)
           option == Head(args)
<1>1. /\ phase = "args" /\ phase' = phase /\ args # <<>> /\ args' = Tail(args)
      /\ cfg' = IF option.name \in DOMAIN OptionField
                THEN [cfg EXCEPT ![OptionField[option.name]] = option.value] ELSE cfg
      /\ UNCHANGED <<argv, config_file, source, period, groups, copied, cleaner, lines>>
      /\ UNCHANGED <<editVars, loopVars>>
  BY DEF ParseOption
<1>2. /\ argv \in Seq({argv[i] : i \in DOMAIN argv}) /\ args \in Seq({argv[i] : i \in DOMAIN argv})
      /\ DOMAIN argv = 1..Len(argv) /\ Len(argv) \in Nat /\ Suffix(args, argv)
      /\ \A i \in DOMAIN argv : argv[i].name \in DOMAIN OptionField => argv[i].value \in Int
      /\ cfg \in [Fields -> Int]
  BY <1>1, OptionTypes DEF Typed, TypeOK, OptionsRead
<1>3. /\ k \in DOMAIN argv /\ option = argv[k] /\ Suffix(Tail(args), argv)
      /\ Tail(args) \in Seq({argv[i] : i \in DOMAIN argv})
      /\ Done(args, argv) = 1..(k - 1) /\ Done(Tail(args), argv) = 1..k
  BY <1>1, <1>2, ReadHead
<1> HIDE DEF k, option
<1>4. Clocked' /\ StartedAsConfigured' /\ Reloaded' /\ ScreenFollows'
  BY <1>1, StartStep DEF Starting
<1>5. cfg' \in [Fields -> Int]
  BY <1>1, <1>2, <1>3
<1>6. Typed'
  BY <1>1, <1>3, <1>5, StartTyped, TypedParts DEF Starting
<1>7. FileRead' /\ Settled'
  BY <1>1 DEF FileRead, Settled, Running
<1>8. ASSUME NEW field \in Fields
      PROVE  cfg'[field] \in FromOptions(Given(field) \cap Done(args', argv), field)
  <2>1. cfg[field] \in FromOptions(Given(field) \cap 1..(k - 1), field)
    BY <1>1, <1>3 DEF OptionsRead
  <2>2. k \in Given(field) <=> option.name \in DOMAIN OptionField /\ OptionField[option.name] = field
    BY <1>3 DEF Given
  <2>3. /\ k \in Given(field) => FromOptions(Given(field) \cap 1..k, field) = {option.value}
        /\ k \notin Given(field) => Given(field) \cap 1..k = Given(field) \cap 1..(k - 1)
    BY <1>2, <1>3, NextOption
  <2>4. CASE k \in Given(field)
    <3>1. cfg'[field] = option.value
      BY <1>1, <1>2, <2>2, <2>4
    <3> QED BY <1>1, <1>3, <2>3, <2>4, <3>1
  <2>5. CASE k \notin Given(field)
    <3>1. cfg'[field] = cfg[field]
      BY <1>1, <1>2, <2>2, <2>5
    <3> QED BY <1>1, <1>3, <2>1, <2>3, <2>5, <3>1
  <2> QED BY <2>4, <2>5
<1>9. OptionsRead'
  <2>1. \A T, field : FromOptions(T, field)' = FromOptions(T, field)
    BY <1>1 DEF FromOptions, FromFile
  <2>2. \A field : Given(field)' = Given(field)
    BY <1>1 DEF Given
  <2> QED BY <1>1, <1>3, <1>8, <2>1, <2>2 DEF OptionsRead
<1> QED BY <1>4, <1>6, <1>7, <1>9

(* All options are read: the fields are layered, and the period is theirs. *)
LEMMA CalcPeriodStep == ASSUME IInv, CalcPeriod PROVE IInv'
<1> USE DEF IInv
<1>1. /\ phase = "args" /\ phase' = "check" /\ args = <<>>
      /\ period' = <<cfg.pktlen, cfg.speed, cfg.generator_nums>>
      /\ UNCHANGED <<argv, config_file, args, source, groups, copied, cleaner, lines, cfg>>
      /\ UNCHANGED <<editVars, loopVars>>
  BY DEF CalcPeriod
<1>2. Clocked' /\ StartedAsConfigured' /\ Reloaded' /\ ScreenFollows'
  BY <1>1, StartStep DEF Starting
<1>3. Typed'
  BY <1>1, StartTyped, TypedParts DEF Starting
<1>4. FileRead' /\ OptionsRead'
  BY <1>1 DEF FileRead, OptionsRead
<1>5. Settled'
  <2>1. argv \in Seq({argv[i] : i \in DOMAIN argv})
    BY OptionTypes DEF Typed, TypeOK
  <2>2. ASSUME NEW field \in Fields PROVE cfg[field] \in Layered(field)
    <3>1. Given(field) \cap Done(<<>>, argv) = Given(field)
      BY <2>1, ReadAll DEF Given
    <3> QED BY <1>1, <3>1 DEF OptionsRead, Layered
  <2>3. \A field : Layered(field)' = Layered(field)
    BY <1>1, LayersKept
  <2> QED BY <1>1, <2>2, <2>3 DEF Settled, Running
<1> QED BY <1>2, <1>3, <1>4, <1>5

(* check_config goes on only when every generator has a parser. *)
LEMMA CheckNumsStep == ASSUME IInv, CheckNums PROVE IInv'
<1> USE DEF IInv
<1>1. /\ phase = "check" /\ phase' \in {"managers", "exited"}
      /\ phase' = "managers" => ~(cfg.generator_nums > cfg.parser_nums)
      /\ UNCHANGED <<startVars, editVars, loopVars, lines, cfg>>
  BY DEF CheckNums
<1>2. Clocked' /\ StartedAsConfigured' /\ Reloaded' /\ ScreenFollows'
  BY <1>1, StartStep DEF Starting
<1>3. Typed'
  BY <1>1, StartTyped, TypedParts DEF startVars, Starting
<1>4. FileRead' /\ OptionsRead'
  BY <1>1 DEF FileRead, OptionsRead
<1>5. Settled'
  <2>1. \A field : Layered(field)' = Layered(field)
    BY <1>1, LayersKept DEF startVars
  <2>2. cfg.generator_nums \in Int /\ cfg.parser_nums \in Int
    BY Names DEF Typed, TypeOK
  <2> QED BY <1>1, <2>1, <2>2 DEF Settled, Running, startVars
<1> QED BY <1>2, <1>3, <1>4, <1>5

(* The managers and, for deep pipes, the cleaner are started. *)
LEMMA StartManagersStep == ASSUME IInv, StartManagers PROVE IInv'
<1> USE DEF IInv
<1>1. /\ phase = "managers" /\ phase' = "parsers"
      /\ groups' = [groups EXCEPT !.managers = cfg.manager_nums]
      /\ cleaner' = (cfg.pipe_depth > CleanDepth)
      /\ UNCHANGED <<argv, config_file, args, source, period, copied, lines, cfg>>
      /\ UNCHANGED <<editVars, loopVars>>
  BY DEF StartManagers
<1>2. Clocked' /\ StartedAsConfigured' /\ Reloaded' /\ ScreenFollows'
  BY <1>1, StartStep DEF Starting
<1>3. /\ groups \in [managers : Int, parsers : Int, generators : Int] /\ cfg.manager_nums \in Int
      /\ cleaner' \in BOOLEAN
  BY <1>1, Names DEF Typed, TypeOK
<1>4. /\ groups' \in [managers : Int, parsers : Int, generators : Int]
      /\ groups'.managers = cfg.manager_nums
  BY <1>1, <1>3
<1>5. Typed'
  BY <1>1, <1>3, <1>4, StartTyped, TypedParts DEF Starting
<1>6. FileRead' /\ OptionsRead'
  BY <1>1 DEF FileRead, OptionsRead
<1>7. Settled'
  <2>1. \A field : Layered(field)' = Layered(field)
    BY <1>1, LayersKept
  <2> QED BY <1>1, <1>4, <2>1 DEF Settled, Running
<1> QED BY <1>2, <1>5, <1>6, <1>7

(* The parsers are started. *)
LEMMA StartParsersStep == ASSUME IInv, StartParsers PROVE IInv'
<1> USE DEF IInv
<1>1. /\ phase = "parsers" /\ phase' = "generators"
      /\ groups' = [groups EXCEPT !.parsers = cfg.parser_nums]
      /\ UNCHANGED <<argv, config_file, args, source, period, copied, cleaner, lines, cfg>>
      /\ UNCHANGED <<editVars, loopVars>>
  BY DEF StartParsers
<1>2. Clocked' /\ StartedAsConfigured' /\ Reloaded' /\ ScreenFollows'
  BY <1>1, StartStep DEF Starting
<1>3. groups \in [managers : Int, parsers : Int, generators : Int] /\ cfg.parser_nums \in Int
  BY <1>1, Names DEF Typed, TypeOK
<1>4. /\ groups' \in [managers : Int, parsers : Int, generators : Int]
      /\ groups'.managers = groups.managers /\ groups'.parsers = cfg.parser_nums
  BY <1>1, <1>3
<1>5. Typed'
  BY <1>1, <1>4, StartTyped, TypedParts DEF Starting
<1>6. FileRead' /\ OptionsRead'
  BY <1>1 DEF FileRead, OptionsRead
<1>7. Settled'
  <2>1. \A field : Layered(field)' = Layered(field)
    BY <1>1, LayersKept
  <2> QED BY <1>1, <1>4, <2>1 DEF Settled, Running
<1> QED BY <1>2, <1>5, <1>6, <1>7

(* The display loop starts with no time stamp, so that no file counts as   *)
(* read yet.                                                               *)
LEMMA StartGeneratorsStep == ASSUME IInv, StartGenerators PROVE IInv'
<1> USE DEF IInv
<1>1. /\ phase = "generators" /\ phase' = "show" /\ copied' = cfg
      /\ groups' = [groups EXCEPT !.generators = cfg.generator_nums]
      /\ UNCHANGED <<argv, config_file, args, source, period, cleaner, lines, cfg>>
      /\ UNCHANGED <<editVars, loopVars>>
  BY DEF StartGenerators
<1>2. /\ groups \in [managers : Int, parsers : Int, generators : Int] /\ cfg.generator_nums \in Int
      /\ groups.managers = cfg.manager_nums /\ groups.parsers = cfg.parser_nums
      /\ cfg.generator_nums <= cfg.parser_nums /\ cleaner = (cfg.pipe_depth > CleanDepth)
  BY <1>1, Names DEF Typed, TypeOK, Settled
<1>3. groups' = [managers |-> cfg.manager_nums, parsers |-> cfg.parser_nums,
                 generators |-> cfg.generator_nums]
  BY <1>1, <1>2
<1>4. groups' \in [managers : Int, parsers : Int, generators : Int]
  BY <1>1, <1>2
<1>5. Typed'
  BY <1>1, <1>4, StartTyped, TypedParts DEF Running
<1>6. Clocked' /\ ScreenFollows'
  BY <1>1 DEF Clocked, ScreenFollows, loopVars, screenVars
<1>7. FileRead' /\ OptionsRead'
  BY <1>1 DEF FileRead, OptionsRead
<1>8. Settled'
  <2>1. \A field : Layered(field)' = Layered(field)
    BY <1>1, LayersKept
  <2> QED BY <1>1, <2>1 DEF Settled, Running
<1>9. StartedAsConfigured'
  BY <1>1, <1>2, <1>3 DEF StartedAsConfigured
<1>10. Reloaded'
  <2>1. old' = 0 /\ files' = files
    BY <1>1 DEF Reloaded, Running, loopVars, editVars
  <2>2. files[CONFIG_FILE] # Absent => files[CONFIG_FILE].mtime >= 1 /\ files[CONFIG_FILE].mtime \in Int
    BY DEF Typed, TypeOK, Files
  <2>3. ~Current'
    BY <2>1, <2>2 DEF Current
  <2> QED BY <1>1, <2>3 DEF Reloaded, Running
<1> QED BY <1>5, <1>6, <1>7, <1>8, <1>9, <1>10

(* A failed start of the generators ends the program. *)
LEMMA StartGeneratorsFailsStep == ASSUME IInv, StartGeneratorsFails PROVE IInv'
<1> USE DEF IInv
<1>1. /\ phase = "generators" /\ phase' = "exited"
      /\ UNCHANGED <<startVars, editVars, loopVars, lines, cfg>>
  BY DEF StartGeneratorsFails
<1>2. Clocked' /\ StartedAsConfigured' /\ Reloaded' /\ ScreenFollows'
  BY <1>1, StartStep DEF Starting
<1>3. Typed'
  BY <1>1 DEF Typed, TypeOK, startVars, editVars, loopVars, screenVars
<1>4. FileRead' /\ OptionsRead' /\ Settled'
  BY <1>1 DEF FileRead, OptionsRead, Settled, Running
<1> QED BY <1>2, <1>3, <1>4

-----------------------------------------------------------------------------
(* sys_display and read_config_simple *)

(* Types, where only the display loop moves. *)
LEMMA LoopTyped ==
    ASSUME Typed, UNCHANGED <<startVars, editVars>>, phase' \in Running \cup {"exited"},
           lines' \in Seq(Line), cfg' \in [Fields -> Int],
           old' \in 0..(Rounds + 1), count' \in 0..Rounds, clock' \in 1..(Rounds + 1),
           state' \in 0..2, screen' \in {"none", "gen", "gpm"}, before' \in Int \X Int
    PROVE  Typed'
<1>1. TypeOK'
  <2>1. TypeOK
    BY DEF Typed
  <2>2. /\ files' = files /\ saves' = saves /\ resaved' = resaved
        /\ argv' = argv /\ config_file' = config_file /\ groups' = groups
        /\ copied' = copied /\ cleaner' = cleaner
    BY DEF editVars, startVars
  <2> QED BY <2>1, <2>2 DEF TypeOK
<1> QED BY <1>1 DEF Typed, editVars, startVars

(* The types that LoopTyped asks for. *)
LEMMA LoopParts ==
    ASSUME Typed
    PROVE  /\ lines \in Seq(Line) /\ cfg \in [Fields -> Int]
           /\ old \in 0..(Rounds + 1) /\ count \in 0..Rounds /\ clock \in 1..(Rounds + 1)
           /\ state \in 0..2 /\ screen \in {"none", "gen", "gpm"} /\ before \in Int \X Int
           /\ Rounds \in Nat
BY ConfigAssumption DEF Typed, TypeOK

(* An iteration of the display loop: the screen goes where its state says. *)
LEMMA ShowStep == ASSUME IInv, Show PROVE IInv'
<1> USE DEF IInv
<1>1. /\ phase = "show" /\ phase' \in {"stat", "exited"}
      /\ UNCHANGED <<startVars, editVars>> /\ UNCHANGED <<old, clock, lines, cfg>>
      /\ phase' = "stat" => count > 0 /\ count' = count - 1 /\ Switch
      /\ phase' = "exited" => UNCHANGED <<count, state, screen, before>>
  BY DEF Show, screenVars
<1>2. FileRead' /\ OptionsRead' /\ Settled' /\ StartedAsConfigured'
  BY <1>1, LoopStep DEF Running
<1>3. /\ old \in 0..(Rounds + 1) /\ count \in 0..Rounds /\ clock \in 1..(Rounds + 1)
      /\ state \in 0..2 /\ screen \in {"none", "gen", "gpm"} /\ before \in Int \X Int
      /\ Rounds \in Nat /\ lines \in Seq(Line) /\ cfg \in [Fields -> Int]
      /\ cfg.screen_display \in Int
  BY LoopParts, Names
<1>4. ASSUME phase' = "stat"
      PROVE  /\ state' = IF cfg.screen_display = 1 THEN 2
                         ELSE IF cfg.screen_display = 0 THEN 1 ELSE state
             /\ screen' = IF state = state' /\ state # 0 THEN ScreenOf(state) ELSE "none"
             /\ before' = <<before[2], cfg.screen_display>>
  BY <1>1, <1>4 DEF Switch, StateAfter
<1>5. /\ state' \in 0..2 /\ screen' \in {"none", "gen", "gpm"} /\ before' \in Int \X Int
      /\ count' \in 0..Rounds
  <2>1. CASE phase' = "stat"
    BY <1>1, <1>3, <1>4, <2>1 DEF ScreenOf
  <2>2. CASE phase' = "exited"
    BY <1>1, <1>3, <2>2
  <2> QED BY <1>1, <2>1, <2>2
<1>6. Typed'
  BY <1>1, <1>3, <1>5, LoopTyped DEF Running
<1>7. Clocked'
  <2>1. clock + count = Rounds + 1
    BY <1>1 DEF Clocked
  <2>2. CASE phase' = "stat"
    <3>1. clock' + count' = Rounds
      BY <1>1, <1>3, <2>1, <2>2
    <3> QED BY <2>2, <3>1 DEF Clocked
  <2>3. CASE phase' = "exited"
    BY <1>1, <2>1, <2>3 DEF Clocked
  <2> QED BY <1>1, <2>2, <2>3
<1>8. Reloaded'
  <2>1. files' = files /\ resaved' = resaved
    BY <1>1 DEF editVars
  <2>2. Current' = Current
    BY <1>1, <2>1 DEF Current
  <2> QED BY <1>1, <2>1, <2>2 DEF Reloaded, InForce, Running
<1>9. ScreenFollows'
  <2>1. CASE phase' = "exited"
    BY <1>1, <2>1 DEF ScreenFollows
  <2>2. CASE phase' = "stat"
    <3>1. SUFFICES ASSUME NEW v \in {0, 1}, before'[2] = v
                   PROVE  /\ state' = v + 1
                          /\ before'[1] = v => screen' = ScreenOf(v + 1)
                          /\ screen' # ScreenOf(2 - v)
      BY DEF ScreenFollows
    <3>2. cfg.screen_display = v /\ before'[1] = before[2]
      BY <1>4, <2>2, <3>1
    <3>3. state' = v + 1
      BY <1>4, <2>2, <3>2
    <3>4. before[2] = v => state = v + 1
      BY DEF ScreenFollows
    <3>5. before'[1] = v => screen' = ScreenOf(v + 1)
      BY <1>4, <2>2, <3>2, <3>3, <3>4
    <3>6. screen' \in {"none", ScreenOf(v + 1)}
      BY <1>4, <2>2, <3>3
    <3>7. screen' # ScreenOf(2 - v)
      BY <3>6 DEF ScreenOf
    <3> QED BY <3>3, <3>5, <3>7
  <2> QED BY <1>1, <2>1, <2>2
<1> QED BY <1>2, <1>6, <1>7, <1>8, <1>9

(* If the time stamp is the remembered one, the file was in force already. *)
LEMMA StatStep == ASSUME IInv, Stat PROVE IInv'
<1> USE DEF IInv
<1> DEFINE file == files[CONFIG_FILE]
<1>1. /\ phase = "stat" /\ UNCHANGED <<startVars, editVars>>
      /\ UNCHANGED <<count, clock, state, screen, before, lines, cfg>>
      /\ old' = IF file # Absent /\ file.mtime # old THEN file.mtime ELSE old
      /\ phase' = IF file # Absent /\ file.mtime # old THEN "reopen" ELSE "sleep"
  BY DEF Stat, screenVars
<1>2. file.mtime \in 0..(Rounds + 1)
  BY DEF Typed, TypeOK, Files
<1>3. FileRead' /\ OptionsRead' /\ Settled' /\ StartedAsConfigured'
  BY <1>1, LoopStep DEF Running
<1>4. Typed'
  BY <1>1, <1>2, LoopTyped, LoopParts DEF Running
<1>5. Clocked' /\ ScreenFollows'
  BY <1>1 DEF Clocked, ScreenFollows
<1>6. Reloaded'
  <2>1. files' = files /\ resaved' = resaved
    BY <1>1 DEF editVars
  <2>2. CASE phase' = "reopen"
    BY <2>2 DEF Reloaded, Running
  <2>3. CASE phase' = "sleep"
    <3>1. old' = old
      BY <1>1, <2>3
    <3>2. Current' = Current
      BY <2>1, <3>1 DEF Current
    <3> QED BY <1>1, <2>1, <2>3, <3>1, <3>2 DEF Reloaded, InForce, Running
  <2> QED BY <1>1, <2>2, <2>3
<1> QED BY <1>3, <1>4, <1>5, <1>6

(* The file opens again, or not: nothing has been reread yet. *)
LEMMA ReopenStep == ASSUME IInv, Reopen PROVE IInv'
<1> USE DEF IInv
<1> DEFINE s == Readable(files[CONFIG_FILE])
<1>1. /\ phase = "reopen" /\ phase' \in {"exited", "reread"} /\ lines' = s
      /\ UNCHANGED <<startVars, editVars, loopVars, cfg>>
  BY DEF Reopen
<1>2. s \in Seq(Line)
  BY ReadableLines DEF Typed, Files
<1>3. FileRead' /\ OptionsRead' /\ Settled' /\ StartedAsConfigured'
  BY <1>1, LoopStep DEF Running
<1>4. Typed'
  BY <1>1, <1>2, LoopTyped, LoopParts DEF Running, loopVars, screenVars
<1>5. Clocked' /\ ScreenFollows'
  BY <1>1 DEF Clocked, ScreenFollows, loopVars, screenVars
<1>6. Reloaded'
  <2>1. Suffix(s, s) /\ Done(s, s) = {}
    BY <1>2, ReadAll
  <2>2. files' = files
    BY <1>1 DEF editVars
  <2>3. s' = s
    BY <2>2
  <2> HIDE DEF s
  <2> QED BY <1>1, <2>1, <2>3 DEF Reloaded, InForce, Running, s
<1> QED BY <1>3, <1>4, <1>5, <1>6

(* A reread line has its effect on a reloadable field. *)
LEMMA RereadLineStep == ASSUME IInv, RereadLine PROVE IInv'
<1> USE DEF IInv
<1> DEFINE s == Readable(files[CONFIG_FILE])
           line == Head(lines)
           k == Now(lines, s)
<1>1. /\ phase = "reread" /\ phase' = phase /\ lines # <<>> /\ lines' = Tail(lines)
      /\ cfg' = IF line.name \in Reloadable THEN [cfg EXCEPT ![line.name] = Value(line)] ELSE cfg
      /\ UNCHANGED <<startVars, editVars, loopVars>>
  BY DEF RereadLine
<1>2. s \in Seq(Line) /\ lines \in Seq(Line) /\ cfg \in [Fields -> Int]
  BY ReadableLines DEF Typed, TypeOK, Files
<1>3. line \in Line /\ Value(line) \in Int /\ Tail(lines) \in Seq(Line)
  BY <1>1, <1>2, HeadTailProperties, Numbers
<1>4. cfg' \in [Fields -> Int] /\ \A field \in Fields \ Reloadable : cfg'[field] = cfg[field]
  BY <1>1, <1>2, <1>3
<1>5. FileRead' /\ OptionsRead' /\ Settled' /\ StartedAsConfigured'
  BY <1>1, <1>4, LoopStep DEF Running
<1>6. Typed'
  BY <1>1, <1>3, <1>4, LoopTyped, LoopParts DEF Running, loopVars, screenVars
<1>7. Clocked' /\ ScreenFollows'
  BY <1>1 DEF Clocked, ScreenFollows, loopVars, screenVars
<1>8. Reloaded'
  <2>1. files' = files /\ old' = old /\ resaved' = resaved
    BY <1>1 DEF editVars, loopVars
  <2>2. s' = s /\ Current' = Current
    BY <2>1 DEF Current
  <2>3. ASSUME Current
        PROVE  /\ Suffix(Tail(lines), s)
               /\ \A field \in Reloadable :
                    Rewritten(s, field) \cap Done(Tail(lines), s) # {} =>
                      cfg'[field] = Value(LastIn(s, Rewritten(s, field) \cap Done(Tail(lines), s)))
    <3>1. /\ Suffix(lines, s)
          /\ \A field \in Reloadable : InForce(s, Rewritten(s, field) \cap Done(lines, s), field)
      BY <1>1, <2>3 DEF Reloaded
    <3>2. /\ k \in 1..Len(s) /\ line = s[k] /\ Suffix(Tail(lines), s)
          /\ Done(lines, s) = 1..(k - 1) /\ Done(Tail(lines), s) = 1..k
      BY <1>1, <1>2, <3>1, ReadHead
    <3> HIDE DEF s, line, k
    <3>3. ASSUME NEW field \in Reloadable,
                 Rewritten(s, field) \cap Done(Tail(lines), s) # {}
          PROVE  cfg'[field] = Value(LastIn(s, Rewritten(s, field) \cap Done(Tail(lines), s)))
      <4>1. /\ line.name = field => LastIn(s, Rewritten(s, field) \cap 1..k) = line
            /\ line.name # field =>
                 Rewritten(s, field) \cap 1..k = Rewritten(s, field) \cap 1..(k - 1)
        BY <1>2, <3>2, NextRewrite
      <4>2. CASE line.name = field
        BY <1>1, <1>2, <3>2, <4>1, <4>2, Names
      <4>3. CASE line.name # field
        <5>1. cfg'[field] = cfg[field]
          BY <1>1, <1>2, <4>3, Names
        <5>2. /\ InForce(s, Rewritten(s, field) \cap 1..(k - 1), field)
              /\ Rewritten(s, field) \cap 1..(k - 1) # {}
          BY <3>1, <3>2, <3>3, <4>1, <4>3
        <5> QED BY <3>2, <4>1, <4>3, <5>1, <5>2 DEF InForce
      <4> QED BY <4>2, <4>3
    <3> QED BY <3>2, <3>3
  <2> HIDE DEF s
  <2> QED BY <1>1, <2>2, <2>3 DEF Reloaded, InForce, Running, s
<1> QED BY <1>5, <1>6, <1>7, <1>8

(* All lines are reread: the reloadable fields are in force. *)
LEMMA EndOfRereadStep == ASSUME IInv, EndOfReread PROVE IInv'
<1> USE DEF IInv
<1> DEFINE s == Readable(files[CONFIG_FILE])
<1>1. /\ phase = "reread" /\ phase' = "sleep" /\ lines = <<>>
      /\ UNCHANGED <<startVars, editVars, loopVars, lines, cfg>>
  BY DEF EndOfReread
<1>2. s \in Seq(Line)
  BY ReadableLines DEF Typed, Files
<1>3. FileRead' /\ OptionsRead' /\ Settled' /\ StartedAsConfigured'
  BY <1>1, LoopStep DEF Running
<1>4. Typed'
  BY <1>1, LoopTyped, LoopParts DEF Running, loopVars, screenVars
<1>5. Clocked' /\ ScreenFollows'
  BY <1>1 DEF Clocked, ScreenFollows, loopVars, screenVars
<1>6. Reloaded'
  <2>1. files' = files /\ old' = old /\ resaved' = resaved
    BY <1>1 DEF editVars, loopVars
  <2>2. s' = s /\ Current' = Current
    BY <2>1 DEF Current
  <2>3. \A field : Rewritten(s, field) \cap Done(<<>>, s) = Rewritten(s, field)
    BY <1>2, ReadAll DEF Rewritten
  <2>4. Current => \A field \in Reloadable : InForce(s, Rewritten(s, field), field)
    BY <1>1, <2>3 DEF Reloaded
  <2> HIDE DEF s
  <2> QED BY <1>1, <2>2, <2>4 DEF Reloaded, InForce, Running, s
<1> QED BY <1>3, <1>4, <1>5, <1>6

(* The loop sleeps, and the second is counted. *)
LEMMA SleepStep == ASSUME IInv, Sleep PROVE IInv'
<1> USE DEF IInv
<1>1. /\ phase = "sleep" /\ phase' = "show" /\ clock' = clock + 1
      /\ UNCHANGED <<startVars, editVars>>
      /\ UNCHANGED <<old, count, state, screen, before, lines, cfg>>
  BY DEF Sleep, screenVars
<1>2. count \in 0..Rounds /\ clock \in 1..(Rounds + 1) /\ Rounds \in Nat /\ clock + count = Rounds
  BY <1>1, LoopParts DEF Clocked
<1>3. clock' \in 1..(Rounds + 1) /\ clock' + count' = Rounds + 1
  BY <1>1, <1>2
<1>4. FileRead' /\ OptionsRead' /\ Settled' /\ StartedAsConfigured'
  BY <1>1, LoopStep DEF Running
<1>5. Typed'
  BY <1>1, <1>3, LoopTyped, LoopParts DEF Running
<1>6. Clocked' /\ ScreenFollows'
  BY <1>1, <1>3 DEF Clocked, ScreenFollows
<1>7. Reloaded'
  <2>1. files' = files /\ resaved' = resaved
    BY <1>1 DEF editVars
  <2>2. Current' = Current
    BY <1>1, <2>1 DEF Current
  <2> QED BY <1>1, <2>1, <2>2 DEF Reloaded, InForce, Running
<1> QED BY <1>4, <1>5, <1>6, <1>7

-----------------------------------------------------------------------------
(* The editor *)

(* What was saved does not count as read: its time is not the remembered   *)
(* one, or it shares it with another content.                              *)
LEMMA SaveStep == ASSUME IInv, NEW v \in Saves, Save(v) PROVE IInv'
<1> USE DEF IInv
<1>1. /\ phase # "exited" /\ saves < MaxSaves /\ saves' = saves + 1
      /\ files' = [files EXCEPT ![CONFIG_FILE] =
           [lines |-> v.lines, terminated |-> v.terminated, mtime |-> clock]]
      /\ resaved' = (resaved \/ clock \in {files[CONFIG_FILE].mtime, old})
      /\ UNCHANGED <<startVars, loopVars, phase, lines, cfg>>
  BY DEF Save
<1>2. /\ Clocked' /\ FileRead' /\ OptionsRead' /\ Settled'
      /\ StartedAsConfigured' /\ ScreenFollows'
  BY <1>1, EditStep
<1>3. /\ v \in Versions /\ v.lines \in Seq(Line) /\ v.terminated \in BOOLEAN
      /\ clock \in 1..(Rounds + 1) /\ Rounds \in Nat /\ MaxSaves \in Nat
  BY ConfigAssumption, VersionLines, LoopParts
<1> DEFINE T == [lines : {w.lines : w \in Versions} \cup {<<>>},
                 terminated : BOOLEAN, mtime : 0..(Rounds + 1)]
<1>4. files \in [Files -> T] /\ CONFIG_FILE \in Files
  BY DEF Typed, TypeOK, Files
<1>5. /\ files'[CONFIG_FILE] = [lines |-> v.lines, terminated |-> v.terminated, mtime |-> clock]
      /\ \A f \in Files \ {CONFIG_FILE} : files'[f] = files[f]
  BY <1>1, <1>4
<1>6. files' \in [Files -> T]
  <2>1. [lines |-> v.lines, terminated |-> v.terminated, mtime |-> clock] \in T
    BY <1>3
  <2> HIDE DEF T
  <2> QED BY <1>1, <1>4, <2>1
<1>7. Typed'
  <2>1. saves' \in 0..MaxSaves /\ resaved' \in BOOLEAN
    BY <1>1, <1>3 DEF Typed, TypeOK
  <2>2. TypeOK'
    <3>1. TypeOK
      BY DEF Typed
    <3>2. /\ UNCHANGED <<argv, config_file, phase, cfg, copied, groups, cleaner>>
          /\ UNCHANGED <<old, count, clock, state, screen, before>>
      BY <1>1 DEF startVars, loopVars, screenVars
    <3> QED BY <1>6, <2>1, <3>1, <3>2 DEF TypeOK
  <2>3. ASSUME NEW f \in Files
        PROVE  files'[f].lines \in Seq(Line) /\ (files'[f] # Absent => files'[f].mtime >= 1)
    <3>1. CASE f = CONFIG_FILE
      BY <1>3, <1>5, <3>1
    <3>2. CASE f # CONFIG_FILE
      BY <1>5, <3>2 DEF Typed
    <3> QED BY <3>1, <3>2
  <2> QED BY <1>1, <2>2, <2>3 DEF Typed, startVars
<1>8. Reloaded'
  <2>1. files'[CONFIG_FILE].mtime = clock /\ old' = old
    BY <1>1, <1>5 DEF loopVars
  <2>2. ~Current'
    BY <1>1, <2>1 DEF Current
  <2> QED BY <1>1, <2>1, <2>2 DEF Reloaded
<1> QED BY <1>2, <1>7, <1>8

(* The file disappears: what was read of it is no longer claimed. *)
LEMMA RemoveStep == ASSUME IInv, Remove PROVE IInv'
<1> USE DEF IInv
<1>1. /\ saves < MaxSaves /\ saves' = saves + 1 /\ files' = [files EXCEPT ![CONFIG_FILE] = Absent]
      /\ resaved' = resaved /\ UNCHANGED <<startVars, loopVars, phase, lines, cfg>>
  BY DEF Remove
<1>2. /\ Clocked' /\ FileRead' /\ OptionsRead' /\ Settled'
      /\ StartedAsConfigured' /\ ScreenFollows'
  BY <1>1, EditStep
<1> DEFINE T == [lines : {w.lines : w \in Versions} \cup {<<>>},
                 terminated : BOOLEAN, mtime : 0..(Rounds + 1)]
<1>3. files \in [Files -> T] /\ CONFIG_FILE \in Files /\ Rounds \in Nat /\ MaxSaves \in Nat
  BY ConfigAssumption DEF Typed, TypeOK, Files
<1>4. Absent \in T /\ Absent.lines \in Seq(Line)
  BY <1>3, EmptySeq DEF Absent
<1> HIDE DEF T
<1>5. /\ files'[CONFIG_FILE] = Absent /\ \A f \in Files \ {CONFIG_FILE} : files'[f] = files[f]
      /\ files' \in [Files -> T]
  BY <1>1, <1>3, <1>4
<1>6. Typed'
  <2>1. saves' \in 0..MaxSaves
    BY <1>1, <1>3 DEF Typed, TypeOK
  <2>2. TypeOK'
    <3>1. TypeOK
      BY DEF Typed
    <3>2. /\ UNCHANGED <<argv, config_file, phase, cfg, copied, groups, cleaner, resaved>>
          /\ UNCHANGED <<old, count, clock, state, screen, before>>
      BY <1>1 DEF startVars, loopVars, screenVars
    <3> QED BY <1>5, <2>1, <3>1, <3>2 DEF TypeOK, T
  <2>3. ASSUME NEW f \in Files
        PROVE  files'[f].lines \in Seq(Line) /\ (files'[f] # Absent => files'[f].mtime >= 1)
    <3>1. CASE f = CONFIG_FILE
      BY <1>4, <1>5, <3>1
    <3>2. CASE f # CONFIG_FILE
      BY <1>5, <3>2 DEF Typed
    <3> QED BY <3>1, <3>2
  <2> QED BY <1>1, <2>2, <2>3 DEF Typed, startVars
<1>7. Reloaded'
  <2>1. ~Current' /\ old' = old
    BY <1>1, <1>5 DEF Current, loopVars
  <2> QED BY <1>1, <2>1 DEF Reloaded
<1> QED BY <1>2, <1>6, <1>7

-----------------------------------------------------------------------------
(* The theorems. *)

(* Every step preserves the invariant. *)
LEMMA StepHolds == IInv /\ [Next]_vars => IInv'
<1> SUFFICES ASSUME IInv, [Next]_vars PROVE IInv'
  OBVIOUS
<1>1. CASE ScanArgs
  BY <1>1, ScanArgsStep
<1>2. CASE OpenConfig
  BY <1>2, OpenConfigStep
<1>3. CASE ReadLine
  BY <1>3, ReadLineStep
<1>4. CASE EndOfFile
  BY <1>4, EndOfFileStep
<1>5. CASE ParseOption
  BY <1>5, ParseOptionStep
<1>6. CASE CalcPeriod
  BY <1>6, CalcPeriodStep
<1>7. CASE CheckNums
  BY <1>7, CheckNumsStep
<1>8. CASE StartManagers
  BY <1>8, StartManagersStep
<1>9. CASE StartParsers
  BY <1>9, StartParsersStep
<1>10. CASE StartGenerators
  BY <1>10, StartGeneratorsStep
<1>11. CASE StartGeneratorsFails
  BY <1>11, StartGeneratorsFailsStep
<1>12. CASE Show
  BY <1>12, ShowStep
<1>13. CASE Stat
  BY <1>13, StatStep
<1>14. CASE Reopen
  BY <1>14, ReopenStep
<1>15. CASE RereadLine
  BY <1>15, RereadLineStep
<1>16. CASE EndOfReread
  BY <1>16, EndOfRereadStep
<1>17. CASE Sleep
  BY <1>17, SleepStep
<1>18. CASE \E v \in Saves : Save(v)
  BY <1>18, SaveStep
<1>19. CASE Remove
  BY <1>19, RemoveStep
<1>20. CASE UNCHANGED vars
  <2>1. /\ UNCHANGED <<startVars, loopVars, phase, lines, cfg>> /\ UNCHANGED editVars
    BY <1>20 DEF vars
  <2>2. /\ Clocked' /\ FileRead' /\ OptionsRead' /\ Settled'
        /\ StartedAsConfigured' /\ ScreenFollows'
    BY <2>1, EditStep
  <2>3. Typed'
    <3>1. TypeOK /\ Typed
      BY DEF IInv, Typed
    <3>2. TypeOK'
      BY <2>1, <3>1 DEF TypeOK, startVars, loopVars, editVars, screenVars
    <3> QED BY <2>1, <3>1, <3>2 DEF Typed, startVars, editVars
  <2>4. Reloaded'
    <3>1. files' = files /\ old' = old /\ resaved' = resaved /\ Reloaded
      BY <2>1 DEF editVars, loopVars, IInv
    <3>2. Current' = Current
      BY <3>1 DEF Current
    <3> QED BY <2>1, <3>1, <3>2 DEF Reloaded, InForce
  <2> QED BY <2>2, <2>3, <2>4 DEF IInv
<1> QED BY <1>1, <1>2, <1>3, <1>4, <1>5, <1>6, <1>7, <1>8, <1>9, <1>10, <1>11, <1>12,
           <1>13, <1>14, <1>15, <1>16, <1>17, <1>18, <1>19, <1>20 DEF Next

(* The invariant holds throughout. *)
LEMMA Invariance == Spec => []IInv
BY InitHolds, StepHolds, PTL DEF Spec

(* An option that parse_args does not drop is assigned to the field it is  *)
(* named for.                                                              *)
LEMMA OptionsMeant ==
    /\ DOMAIN OptionField = DOMAIN OptionMeans \ Dropped
    /\ \A x \in DOMAIN OptionField : OptionField[x] = OptionMeans[x]
<1>1. DOMAIN OptionField = {"generator_nums", "parser_nums", "manager_nums", "pktlen",
                            "gpool_size", "pqueue_length", "packet_generator_mode"}
  BY DEF OptionField
<1>2. DOMAIN OptionMeans = DOMAIN OptionField \cup Dropped
  BY <1>1 DEF OptionMeans, Dropped
<1>3. DOMAIN OptionField \cap Dropped = {}
  BY <1>1 DEF Dropped
<1>4. ASSUME NEW x \in DOMAIN OptionField PROVE OptionField[x] = OptionMeans[x]
  BY <1>1, <1>4 DEF OptionField, OptionMeans
<1> QED BY <1>2, <1>3, <1>4

(* Outside the exceptions, the layers as they are read leave one value,    *)
(* the topmost layer's.                                                    *)
LEMMA LayeredIsTopmost ==
    ASSUME source \in Seq(Line), NEW field \in Fields, ~Excepted(field)
    PROVE  Layered(field) = {Topmost(field)}
<1>1. CASE Chosen(field) # {}
  <2>1. Given(field) = Chosen(field)
    BY <1>1, OptionsMeant DEF Given, Chosen, Excepted
  <2> QED BY <1>1, <2>1 DEF Layered, FromOptions, Topmost
<1>2. CASE Chosen(field) = {}
  <2>1. Given(field) = {}
    BY <1>2, OptionsMeant DEF Given, Chosen
  <2>2. \A i \in DOMAIN source : ~Bad(source[i])
    BY <1>2 DEF Excepted
  <2>3. ~OpenEnded(field)
    BY <1>2 DEF Excepted
  <2>4. DOMAIN source = 1..Len(source) /\ Len(source) \in Nat
    OBVIOUS
  <2>5. Reached(source) = DOMAIN source
    BY <2>2, <2>4 DEF Reached
  <2>6. Setting(source, field) = Written(field)
    BY <2>2, <2>5 DEF Setting, Written
  <2>7. Layered(field) = FromLines(source, Written(field), field)
    BY <2>1, <2>6 DEF Layered, FromOptions, FromFile
  <2>8. CASE Written(field) = {}
    BY <1>2, <2>7, <2>8 DEF FromLines, Topmost
  <2>9. CASE Written(field) # {}
    <3> DEFINE line == LastIn(source, Written(field))
    <3>1. PICK i \in Written(field) : line = source[i]
      <4>1. Written(field) \subseteq 1..Len(source)
        BY <2>4 DEF Written
      <4>2. \E i \in Written(field) : \A j \in Written(field) : j <= i
        BY <2>4, <2>9, <4>1, Greatest
      <4> QED BY <4>2 DEF LastIn
    <3>2. line \in Line /\ Sets(line, field) /\ ~Bad(line)
      BY <2>4, <3>1 DEF Written
    <3>3. Topmost(field) = NumberFor(line, field)
      BY <1>2, <2>9 DEF Topmost
    <3>4. Layered(field) = IF line.name \in Ranges /\ field = High[line.name]
                           THEN Limits(line) ELSE {Value(line)}
      BY <2>7, <2>9 DEF FromLines
    <3> HIDE DEF line
    <3>5. CASE line.name \in Ranges /\ field = High[line.name]
      <4>1. line.nums # <<>>
        BY <3>2, <3>5 DEF Bad
      <4>2. CASE Len(line.nums) = 2
        BY <3>3, <3>4, <3>5, <4>2 DEF Limits, NumberFor
      <4>3. CASE Len(line.nums) # 2
        <5>1. line.name \notin Addresses
          BY <2>3, <2>9, <3>5, <4>3 DEF OpenEnded, line
        <5>2. line.name \in Ports
          BY <3>5, <5>1 DEF Ranges
        <5> QED BY <3>3, <3>4, <3>5, <4>1, <4>3, <5>2 DEF Limits, NumberFor, Value
      <4> QED BY <4>2, <4>3
    <3>6. CASE ~(line.name \in Ranges /\ field = High[line.name])
      BY <3>3, <3>4, <3>6 DEF NumberFor
    <3> QED BY <3>5, <3>6
  <2> QED BY <2>8, <2>9
<1> QED BY <1>1, <1>2

(* Once the threads run, a field that is not reloadable has the value of   *)
(* the topmost layer, as the comment in main orders them, but for the      *)
(* options parse_args drops, the lines of a file with a blank address or   *)
(* port, and the end of an address range without "+n"; the period was      *)
(* computed from those values, and types hold throughout (main,            *)
(* read_config_file, parse_args).                                          *)
THEOREM LayersAreApplied == Spec => []LayersApplied
<1>1. IInv => LayersApplied
  <2> SUFFICES ASSUME IInv PROVE LayersApplied
    OBVIOUS
  <2>1. TypeOK
    BY DEF IInv, Typed
  <2>2. source \in Seq(Line)
    BY DEF IInv, Typed
  <2>3. phase \in Running => period = <<cfg.pktlen, cfg.speed, cfg.generator_nums>>
    BY DEF IInv, Settled
  <2>4. ASSUME phase \in Running, NEW field \in Fields \ Reloadable, ~Excepted(field)
        PROVE  cfg[field] = Topmost(field)
    <3>1. cfg[field] \in Layered(field)
      BY <2>4 DEF IInv, Settled
    <3> QED BY <2>2, <2>4, <3>1, LayeredIsTopmost
  <2> QED BY <2>1, <2>3, <2>4 DEF LayersApplied
<1> QED BY <1>1, Invariance, PTL

(* The groups of threads that run are the configured ones, every generator *)
(* has a parser, and neither the generators' copies nor the choice of      *)
(* cleaning sessions follows a reload (main, init_manager_group,           *)
(* init_generator_group, read_config_simple).                              *)
THEOREM ThreadsStartAsConfigured == Spec => []StartedAsConfigured
<1>1. IInv => StartedAsConfigured
  BY DEF IInv
<1> QED BY <1>1, Invariance, PTL

(* A ./generator.conf that the display loop takes for read is in force,    *)
(* however saves, removals and the steps of read_config_simple interleave, *)
(* unless two contents shared a modification time (read_config_simple).    *)
THEOREM ReloadsAreInForce == Spec => []ReloadInForce
<1>1. IInv => ReloadInForce
  <2> SUFFICES ASSUME IInv PROVE ReloadInForce
    OBVIOUS
  <2> DEFINE file == files[CONFIG_FILE]
             s == Readable(file)
  <2>1. file.lines \in Seq(Line)
    BY DEF IInv, Typed, Files
  <2>2. s \in Seq(Line) /\ \A i \in DOMAIN s : s[i] = file.lines[i]
    BY <2>1, ReadableLines
  <2>3. DOMAIN s = 1..Len(s) /\ Len(s) \in Nat
    BY <2>2, LenProperties
  <2>4. ASSUME NEW field, Rewritten(s, field) # {}
        PROVE  LastIn(s, Rewritten(s, field)) = LastIn(file.lines, Rewritten(s, field))
    <3> DEFINE T == Rewritten(s, field)
               i == CHOOSE i \in T : \A j \in T : j <= i
    <3>1. T \subseteq 1..Len(s) /\ T # {}
      BY <2>3, <2>4 DEF Rewritten
    <3>2. \E j \in T : \A l \in T : l <= j
      <4> HIDE DEF T
      <4> QED BY <2>3, <3>1, Greatest
    <3>3. i \in T
      <4> HIDE DEF T
      <4> QED BY <3>2
    <3>4. i \in DOMAIN s
      BY <2>3, <3>1, <3>3
    <3> QED BY <2>2, <3>4 DEF LastIn
  <2> HIDE DEF s, file
  <2>5. (phase \in {"show", "sleep"} /\ file # Absent /\ file.mtime = old /\ ~resaved) =>
           \A field \in Reloadable : InForce(s, Rewritten(s, field), field)
    BY DEF IInv, Reloaded, Current, file, s
  <2>6. (phase \in {"show", "sleep"} /\ file # Absent /\ file.mtime = old /\ ~resaved) =>
           \A field \in Reloadable : Rewritten(s, field) # {} =>
             cfg[field] = Value(LastIn(file.lines, Rewritten(s, field)))
    BY <2>4, <2>5 DEF InForce
  <2> QED BY <2>6 DEF ReloadInForce, Rewritten, file, s
<1> QED BY <1>1, Invariance, PTL

(* The screen follows screen_display through every order of reloads and    *)
(* iterations (sys_display).                                               *)
THEOREM ScreenAlwaysFollows == Spec => []ScreenFollows
<1>1. IInv => ScreenFollows
  BY DEF IInv
<1> QED BY <1>1, Invariance, PTL
=============================================================================
