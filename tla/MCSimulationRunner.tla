------------------------- MODULE MCSimulationRunner -------------------------
(* What EnergyPlus may write, for the run of SimulationRunner.                *)
EXTENDS SimulationRunner

CONSTANT MaxLines            \* bound: lines of an eso file after its first header

\* Two zones, of which the second one has no people; another output whose name contains
\* that of the temperature; people under the second of their names.
MCDictionary ==
    << Output(1, "temperature", {"temperature"}), Output(2, "people", {"people"}),
       Output(3, "humidity", {"humidity"}), Output(5, "other temperature", {"temperature"}),
       Output(4, "temperature", {"temperature"}) >>

\* A winter night, a summer noon; values of the outputs; a line of neither.
MCHeaders == {Header(1, 1), Header(7, 13)}

MCLines == MCHeaders \cup {Value(1, 19), Value(2, 0), Value(4, 21), Value(5, 23),
                          OtherLine}

EsoOutput(data) ==
    [eso |-> [dictionary |-> MCDictionary, data |-> data,
              meterDictionary |-> <<Output(5, "Electricity:Facility", {"Electricity:Facility"})>>,
              meterData |-> <<Header(1, 1), Value(5, 7), Header(1, 14)>>],
     sql |-> NoFile, csv |-> <<>>]

\* Frames of every kind, in orders that matter to the choice.
MCHours == {<<1, 1>>, <<1, 14>>, <<7, 11>>}

CsvRow(occupancy) == [temperature |-> 20, humidity |-> 50, occupancy |-> occupancy, power |-> 3]

SqlOutput(times, occupancy) ==
    [eso |-> NoFile,
     sql |-> [last |-> 3, temperature |-> [t \in 1..3 |-> 20], humidity |-> [t \in 1..3 |-> 50],
              occupancy |-> occupancy, hvac |-> <<>>, facility |-> [t \in 1..3 |-> 3],
              times |-> [t \in 1..3 |-> [month |-> times[t][1], hour |-> times[t][2]]]],
     csv |-> <<>>]

MCOutputs ==
    {EsoOutput(<<header>> \o data) :
         header \in MCHeaders, data \in UNION {[1..n -> MCLines] : n \in 0..MaxLines}}
    \cup {EsoOutput(<<Value(4, 20), Header(1, 14), Value(4, 22)>>)}
    \cup {SqlOutput(times, occupancy) :
              times \in [1..3 -> MCHours],
              occupancy \in {<<4, 4>>, <<0, 0, 4>>}}
    \cup {[eso |-> NoFile, sql |-> NoFile, csv |-> rows] :
              rows \in {<<>>, <<CsvRow(Missing)>>, <<CsvRow(0), CsvRow(Missing), CsvRow(4)>>}}

MCInstants == {[month |-> 1, hour |-> 23], [month |-> 7, hour |-> 12]}
=============================================================================
