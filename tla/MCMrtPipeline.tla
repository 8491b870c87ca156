--------------------------- MODULE MCMrtPipeline ----------------------------
(* Two splittings, three drivers, every start, all stages dumped or none. *)
EXTENDS MrtPipeline

MCConfig(d, s, k, du, t, de, sl, n) ==
  [driver |-> d, start |-> s, keys |-> k, dump |-> du, tail |-> t, deps |-> de,
   sliced |-> sl, calibrate_num |-> n]

MainConfigs ==
  {c \in {MCConfig("main2", s, k, du, t, de, FALSE, 1) :
            s \in 0 .. 5, k \in BOOLEAN, du \in {{}, From(1)},
            t \in {<<"evaluate">>, <<"evaluate", "compile">>}, de \in BOOLEAN} :
     c.keys \/ c.deps}

V2Configs == {MCConfig("V2", s, TRUE, From(1), <<"evaluate", "compile">>, TRUE, TRUE, n) :
                s \in 0 .. 5, n \in 1 .. 2}

V3Configs ==
  {c \in {MCConfig("V3", s, k, From(1), <<"evaluate", "compile">>, de, FALSE, 1) :
            s \in 0 .. 3, k \in BOOLEAN, de \in BOOLEAN} : c.keys \/ c.deps}

MCConfigs == MainConfigs \cup V2Configs \cup V3Configs
=============================================================================
