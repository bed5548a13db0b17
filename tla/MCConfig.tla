----------------------------- MODULE MCConfig -----------------------------
(* Instances of Config for TLC. *)
EXTENDS Config

Line(name, nums) == [name |-> name, nums |-> nums]
Whole(s) == [lines |-> s, terminated |-> TRUE]
Cut(s) == [lines |-> s, terminated |-> FALSE]
Option(name, value) == [name |-> name, value |-> value]

(* Numbers stand for the real values: pktlen 3 is longer than MaxPktlen. *)
AllDefaults == [field \in Fields |->
    IF field = "pipe_depth" THEN 2
    ELSE IF field \in {"destory_time", "speed_mode"} THEN 0 ELSE 1]

SomeSaves ==
    {Whole(<<Line("# comment", <<>>), Line("pipe_depth", <<5>>)>>),
     Whole(<<Line("destory_time", <<7>>), Line("parser_nums", <<3>>), Line("destory_time", <<8>>)>>),
     Whole(<<Line("screen_display", <<0>>), Line("pipe_depth", <<3>>)>>)}

SomeVersions == SomeSaves \cup
    {Whole(<<Line("generator_nums", <<2>>), Line("parser_nums", <<2>>), Line("pipe_depth", <<5>>)>>),
     Whole(<<Line("saddr", <<4>>), Line("sport", <<>>), Line("manager_hash_length", <<2>>)>>),
     Whole(<<Line("daddr", <<4, 2>>), Line("saddr", <<3>>), Line("sport", <<6>>), Line("dport", <<6, 1>>)>>),
     Whole(<<Line("screen_display", <<5>>)>>),
     Whole(<<Line("protocol", <<>>), Line("pktlen", <<3>>), Line("speed", <<2>>)>>),
     Cut(<<Line("manager_hash_length", <<2>>), Line("pipe_depth", <<4>>)>>)}

SomeArgvs ==
    {<<>>,
     <<Option("config", "other.conf")>>,
     <<Option("config", CONFIG_FILE), Option("generator_nums", 2), Option("config", "other.conf")>>,
     <<Option("parser_nums", 2), Option("pktlen", 3), Option("parser_nums", 3)>>,
     <<Option("gpool_size", 2), Option("mhash_length", 3), Option("unknown", 2)>>,
     <<Option("pqueue_length", 2), Option("manager_nums", 2), Option("packet_generator_mode", 0)>>}
===========================================================================
