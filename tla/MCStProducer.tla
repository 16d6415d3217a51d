---------------------------- MODULE MCStProducer ----------------------------
(* StProducer called by five programs, each with the operations that belong  *)
(* together.                                                                 *)
EXTENDS StProducer

Plain == [ops |-> {}, calls |-> 6, sources |-> {1}, accumulate |-> {TRUE}, attests |-> {0},
          values |-> {}, conditions |-> {}, machines |-> {}]

Transition == {"begin", "definition", "warm", "cold"}

\* Messages of two sources across transitions and retries.
Epochs == [Plain EXCEPT !.ops = {"message", "checkpoint"} \cup Transition, !.calls = 6,
                        !.sources = {1, 2}, !.accumulate = BOOLEAN]

\* More sources than slots, and staged records.
Stager == [Plain EXCEPT !.ops = {"message", "staged", "begin", "read"}, !.calls = 4,
                        !.sources = {0, 1, 2, 3}, !.accumulate = BOOLEAN]

\* Alarms of two sources, with a cold start.
Alarms == [Plain EXCEPT !.ops = {"condition", "lifecycle", "begin", "definition", "cold"},
                        !.conditions = {1}, !.sources = {1, 2}, !.calls = 5]

\* Commands and their signatures, with transitions.
Signed == [Plain EXCEPT !.ops = {"command", "signature"} \cup Transition,
                        !.attests = {1}, !.sources = {1, 2}, !.calls = 6]

\* Values and a state machine of one source; two of the three integers have a slot.
Values == [Plain EXCEPT !.ops = {"value", "audit", "state"}, !.calls = 4,
    !.sources = {0}, !.machines = {1},
    !.values = {[key |-> <<"real", 1>>, mode |-> "band", range |-> 0 .. 2],
                [key |-> <<"int", 2>>, mode |-> "change", range |-> 0 .. 1],
                [key |-> <<"int", 3>>, mode |-> "periodic", range |-> 0 .. 1],
                [key |-> <<"int", 4>>, mode |-> "audit", range |-> 0 .. 1]}]

MCPrograms == {Epochs, Stager, Alarms, Signed, Values}

MCRecord ==
    [run_id : 1 .. 3, source_id : 0 .. 3, seq : 0 .. 6,
     len : (HeaderLen + 1) .. (HeaderLen + 3), body : [kind : {"data", "command"}]]

=============================================================================
