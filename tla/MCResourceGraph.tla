-------------------------- MODULE MCResourceGraph --------------------------
(* An instance of ResourceGraph for TLC.                                   *)
EXTENDS ResourceGraph

Worker(name, zone, cpu, mem, gpu) ==
    [name |-> name, zone |-> zone, labels |-> {}, unschedulable |-> FALSE,
     cpu |-> cpu, mem |-> mem, gpu |-> gpu]

\* Two nodes of a zone between nodes that are passed over, and a node without
\* a zone.
OneZone ==
    << [Worker("cp", "a", 4000, 4096, 0) EXCEPT !.labels = {controlPlaneLabel}],
       Worker("n", "a", 2500, 2047, 1),
       [Worker("off", "b", 4000, 4096, 0) EXCEPT !.unschedulable = TRUE],
       Worker("m", "a", 1500, 1024, 0) >>
SkippedAndBare ==
    << Worker("n", "", 400, 3000, 0),
       [Worker("ext", "b", 4000, 4096, 0) EXCEPT !.labels = {"skip"}] >>

SomeClusters == {OneZone, SkippedAndBare}

\* None, and half a cpu, which is more than one node has.
SomeLoads == {[cpu |-> 0, mem |-> 0], [cpu |-> 500, mem |-> 100]}

\* Nothing requested; two half cpus; one and a half cpus on a node of a zone.
SomePods == {[cpus |-> <<0>>, labels |-> {}],
             [cpus |-> <<500, 500>>, labels |-> {}],
             [cpus |-> <<1500>>, labels |-> {"zone"}]}
=============================================================================
