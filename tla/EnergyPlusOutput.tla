-------------------------- MODULE EnergyPlusOutput --------------------------
(* How the runner reads what EnergyPlus wrote, and which of the simulated     *)
(* intervals it reports (app/simulation/energyplus_runner.py 153-512,         *)
(* 548-577), as operators. Lines are records, names of outputs are strings,   *)
(* measurements are natural numbers.                                          *)
EXTENDS Integers, Sequences, FiniteSets

Missing == -1                \* None

NoFile == [file |-> "none"]

Frame(time, temperature, humidity, occupancy, power) ==
    [time |-> time, temperature |-> temperature, humidity |-> humidity,
     occupancy |-> occupancy, power |-> power]

OrElse(value, default) == IF value = Missing THEN default ELSE value

\* A record or an interval of which no frame is yielded.
NoFrame == [frame |-> "none"]

\* A generator skips some of what it goes through, and yields the others in order:
\* what it has yielded before the n-th.
Yielded(items) ==
    LET yielded[n \in 1..Len(items) + 1] ==
            IF n = 1 THEN <<>>
            ELSE IF items[n - 1] = NoFrame THEN yielded[n - 1]
            ELSE Append(yielded[n - 1], items[n - 1])
    IN yielded[Len(items) + 1]

First(values) ==
    IF \E i \in DOMAIN values : values[i] # Missing
    THEN values[CHOOSE i \in DOMAIN values :
                    values[i] # Missing /\ \A k \in 1..i - 1 : values[k] = Missing]
    ELSE Missing
-----------------------------------------------------------------------------
(* eplusout.eso and eplusout.mtr: a dictionary of numbered outputs, and after *)
(* it headers of intervals, values of outputs, and lines that are neither.    *)

Header(month, hour) == [kind |-> "header", month |-> month, hour |-> hour]

Value(index, value) == [kind |-> "value", index |-> index, value |-> value]

OtherLine == [kind |-> "other"]

\* The hour of a header is the one that ends.
TimeOf(header) ==
    [month |-> header.month, hour |-> IF header.hour = 0 THEN 0 ELSE header.hour - 1]

Lines ==
    [kind : {"header"}, month : 1..12, hour : 0..24]
    \cup [kind : {"value"}, index : Nat, value : Nat]
    \cup {OtherLine}

NoValues == [index \in {} |-> Missing]

SetValue(values, index, value) ==
    [i \in DOMAIN values \cup {index} |-> IF i = index THEN value ELSE values[i]]

\* Mutant of AddLine: a value stays until it is written again.
KeepValues(records, line) ==
    IF line.kind = "header"
    THEN Append(records, [time |-> TimeOf(line),
                          values |-> IF records = <<>> THEN NoValues
                                     ELSE records[Len(records)].values])
    ELSE IF line.kind = "value" /\ records # <<>>
    THEN [records EXCEPT ![Len(records)].values = SetValue(@, line.index, line.value)]
    ELSE records

\* A header begins a record; a value belongs to the record that was begun last.
AddLine(records, line) ==
    IF line.kind = "header" THEN Append(records, [time |-> TimeOf(line), values |-> NoValues])
    ELSE IF line.kind = "value" /\ records # <<>>
    THEN [records EXCEPT ![Len(records)].values = SetValue(@, line.index, line.value)]
    ELSE records

\* The records before the n-th line, and those of all lines.
Records(data) ==
    LET records[n \in 1..Len(data) + 1] ==
            IF n = 1 THEN <<>> ELSE AddLine(records[n - 1], data[n - 1])
    IN records[Len(data) + 1]

\* A line of a dictionary: the output it numbers, its name without its zone, and which of
\* the names that are looked for it contains.
Output(index, name, contains) == [index |-> index, name |-> name, contains |-> contains]

DictionaryLines == [index : Nat, name : STRING, contains : SUBSET STRING]

\* An output of a name replaces the earlier ones of that name, in their place.
IndexOf(dictionary, k) ==
    LET same == {i \in DOMAIN dictionary : dictionary[i].name = dictionary[k].name} IN
    dictionary[CHOOSE i \in same : \A j \in same : j <= i].index

\* The value of a record that is found under the name of a line of the dictionary.
ValueAt(record, dictionary, candidate, k) ==
    IF candidate \in dictionary[k].contains /\ IndexOf(dictionary, k) \in DOMAIN record.values
    THEN record.values[IndexOf(dictionary, k)]
    ELSE Missing

\* Each candidate is looked for in every name, until there is a value.
ValueFor(record, dictionary, candidates) ==
    First([c \in DOMAIN candidates |->
              First([k \in DOMAIN dictionary |->
                        ValueAt(record, dictionary, candidates[c], k)])])

TemperatureNames == <<"temperature">>
HumidityNames == <<"humidity", "humidity ratio">>
OccupancyNames == <<"zone people", "people">>
PowerMeters == <<"EnergyTransfer:Facility", "ExteriorLights:Electricity", "Electricity:Facility",
                 "EnergyTransfer:Building">>

\* The i-th record of the meters belongs to the i-th interval. An interval without
\* a temperature is left out.
EsoFrame(eso, meters, record, i) ==
    IF ValueFor(record, eso.dictionary, TemperatureNames) = Missing THEN NoFrame
    ELSE Frame(record.time,
               ValueFor(record, eso.dictionary, TemperatureNames),
               OrElse(ValueFor(record, eso.dictionary, HumidityNames), 50),
               OrElse(ValueFor(record, eso.dictionary, OccupancyNames), 25),
               IF i <= Len(meters)
               THEN OrElse(ValueFor(meters[i], eso.meterDictionary, PowerMeters), 0)
               ELSE 0)

EsoFrames(eso) ==
    LET records == Records(eso.data)
        meters == Records(eso.meterData)
    IN Yielded([i \in 1..Len(records) |-> EsoFrame(eso, meters, records[i], i)])
-----------------------------------------------------------------------------
(* eplusout.sql: a series of values by time index for each quantity, of the   *)
(* configured zone; and eplusout.csv: rows. All four quantities must be there.*)

\* The first name under which there are values.
PowerSeries(sql) == IF sql.hvac # <<>> THEN sql.hvac ELSE sql.facility

SqlTime(sql, index, now) ==
    IF index \in DOMAIN sql.times THEN TimeOf(sql.times[index]) ELSE now

SqlFrame(sql, t, now) ==
    LET power == PowerSeries(sql) IN
    IF t \in DOMAIN sql.temperature \cap DOMAIN sql.humidity \cap DOMAIN sql.occupancy
                \cap DOMAIN power
    THEN Frame(SqlTime(sql, t, now), sql.temperature[t], sql.humidity[t], sql.occupancy[t],
               power[t])
    ELSE NoFrame

SqlFrames(sql, now) == Yielded([t \in 1..sql.last |-> SqlFrame(sql, t, now)])

CsvFrame(row, now) ==
    IF \E q \in DOMAIN row : row[q] = Missing THEN NoFrame
    ELSE Frame(now, row.temperature, row.humidity, row.occupancy, row.power)

CsvFrames(rows, now) == Yielded([i \in 1..Len(rows) |-> CsvFrame(rows[i], now)])

\* The files of an output have lines, time indices up to a last one, and rows.
Readable(output) ==
    /\ output.eso # NoFile =>
           /\ output.eso.dictionary \in Seq(DictionaryLines)
           /\ output.eso.meterDictionary \in Seq(DictionaryLines)
           /\ output.eso.data \in Seq(Lines) /\ output.eso.meterData \in Seq(Lines)
    /\ output.sql # NoFile => output.sql.last \in Nat
    /\ output.csv \in Seq([{"temperature", "humidity", "occupancy", "power"}
                               -> Nat \cup {Missing}])

\* The kind of output that is there is read, whether it has frames or not.
FramesOf(output, now) ==
    IF output.eso # NoFile THEN EsoFrames(output.eso)
    ELSE IF output.sql # NoFile THEN SqlFrames(output.sql, now)
    ELSE IF output.csv # <<>> THEN CsvFrames(output.csv, now)
    ELSE <<>>
-----------------------------------------------------------------------------
(* The frame that stands for the cycle.                                       *)

Midday(frame) == frame.time.hour \in 10..15

Occupied(frame) == frame.occupancy > 0

Summer(frame) == frame.time.month \in 6..8

\* Summer comes first, then the hour nearest to 13.
Distance(frame) ==
    (IF Summer(frame) THEN 0 ELSE 10)
        + (IF frame.time.hour < 13 THEN 13 - frame.time.hour ELSE frame.time.hour - 13)

Candidates(frames) ==
    LET midday == {i \in DOMAIN frames : Midday(frames[i])}
        occupied == {i \in midday : Occupied(frames[i])}
    IN IF occupied # {} THEN occupied ELSE midday

\* The first of the nearest candidates; the middle frame when there is none.
RepresentativeFrameIndex(frames) ==
    IF Candidates(frames) # {}
    THEN CHOOSE i \in Candidates(frames) :
             \A k \in Candidates(frames) :
                 \/ Distance(frames[i]) < Distance(frames[k])
                 \/ Distance(frames[i]) = Distance(frames[k]) /\ i <= k
    ELSE IF Len(frames) = 1 THEN 1 ELSE Len(frames) \div 2 + 1
-----------------------------------------------------------------------------
(* What reading and choosing promise.                                         *)

Headers(data) == {k \in DOMAIN data : data[k].kind = "header"}

\* The lines of an interval with a value of an output.
Written(data, header, index) ==
    {k \in header + 1 .. Len(data) :
        /\ data[k].kind = "value" /\ data[k].index = index
        /\ Headers(data) \cap (header .. k) = {header}}

\* The lines of an interval with a value of an output whose name contains a candidate.
Lookup(data, header, dictionary, candidate, k) ==
    IF candidate \in dictionary[k].contains
    THEN Written(data, header, IndexOf(dictionary, k)) ELSE {}

\* The candidates, with the outputs of the dictionary, that are written in an interval.
Available(data, header, dictionary, candidates) ==
    {p \in (DOMAIN candidates) \X (DOMAIN dictionary) :
        Lookup(data, header, dictionary, candidates[p[1]], p[2]) # {}}

\* What an interval reads for a quantity: the last value of the first output that is
\* written there, candidate by candidate, or a default.
Reads(value, data, header, dictionary, candidates, default) ==
    LET available == Available(data, header, dictionary, candidates) IN
    IF available = {} THEN value = default
    ELSE \E p \in available :
             LET lines == Lookup(data, header, dictionary, candidates[p[1]], p[2]) IN
             /\ \A q \in available : p[1] < q[1] \/ (p[1] = q[1] /\ p[2] <= q[2])
             /\ \E k \in lines : value = data[k].value /\ \A l \in lines : l <= k

\* The number of an interval in its file.
Number(data, header) == Cardinality({h \in Headers(data) : h <= header})

\* The power of an interval is that of the interval of the meters with its number.
ReadsPower(power, eso, header) ==
    LET metered == {g \in Headers(eso.meterData) :
                        Number(eso.meterData, g) = Number(eso.data, header)}
    IN IF metered = {} THEN power = 0
       ELSE \A g \in metered :
                Reads(power, eso.meterData, g, eso.meterDictionary, PowerMeters, 0)

\* Each interval with a temperature is a frame, in order, and a frame has what was
\* written in its own interval of the output and of the meters, whatever stands in the
\* intervals before it, in those left out, and in lines that are no values
\* (energyplus_runner.py 191-216, 258-324).
FramesMatchOutput(frames, eso) ==
    LET kept == {h \in Headers(eso.data) :
                    Available(eso.data, h, eso.dictionary, TemperatureNames) # {}}
        Read(value, header, candidates, default) ==
            Reads(value, eso.data, header, eso.dictionary, candidates, default)
    IN \E of \in [DOMAIN frames -> kept] :
           /\ \A h \in kept : \E i \in DOMAIN frames : of[i] = h
           /\ \A i, k \in DOMAIN frames : i < k => of[i] < of[k]
           /\ \A i \in DOMAIN frames :
                  /\ frames[i].time = TimeOf(eso.data[of[i]])
                  /\ Read(frames[i].temperature, of[i], TemperatureNames, Missing)
                  /\ Read(frames[i].humidity, of[i], HumidityNames, 50)
                  /\ Read(frames[i].occupancy, of[i], OccupancyNames, 25)
                  /\ ReadsPower(frames[i].power, eso, of[i])

\* "Return an occupied midday record from the warmest available period": no frame
\* that is reported leaves out a better one (energyplus_runner.py 548-577).
Better(f, g) ==
    /\ Midday(f)
    /\ \/ ~Midday(g)
       \/ Occupied(f) /\ ~Occupied(g)
       \/ (Occupied(g) => Occupied(f)) /\ Distance(f) < Distance(g)

NoBetterFrame(frames, reported) == \A i \in DOMAIN frames : ~Better(frames[i], reported)
=============================================================================
