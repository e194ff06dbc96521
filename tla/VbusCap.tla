------------------------------ MODULE VbusCap -------------------------------
(***************************************************************************)
(* The VBUSCAP file (taps/recorder.h, recorder.cpp): what Recorder writes    *)
(* and what Replayer reads, byte by byte.  A byte of a number is the number   *)
(* with the byte's place in it.                                              *)
(***************************************************************************)
EXTENDS Naturals, Sequences, SequencesExt

Fields == <<"Proto", "Flags", "Reserved", "Tag", "Ts_ns", "Len">>
Size == [Proto |-> 1, Flags |-> 1, Reserved |-> 2, Tag |-> 8, Ts_ns |-> 8, Len |-> 4]

UpTo(n, unit) == unit * ((n + unit - 1) \div unit)

\* Where a field of VCapRec begins: aligned to its size, as the compiler lays it out,
\* or packed, as WireHdr (daemon_client.h) and docs/protocol.md have it.
Offset(aligned) ==
    LET begin[k \in 1..Len(Fields)] ==
            IF k = 1 THEN 0
            ELSE LET end == begin[k - 1] + Size[Fields[k - 1]]
                 IN  IF aligned THEN UpTo(end, Size[Fields[k]]) ELSE end
    IN  begin

HeaderSize(aligned) ==
    LET end == Offset(aligned)[Len(Fields)] + Size["Len"]
    IN  IF aligned THEN UpTo(end, 8) ELSE end

Pad == <<"pad", 0>>
FileHeader == [i \in 1..16 |-> <<"VBUSCAP", i>>]

\* Recorder::Write; a payload is a sequence of bytes, fewer than the 2^32 that Len can count.
Record(f) ==
    LET off == Offset(TRUE)
        value == [Proto |-> f.Proto, Flags |-> 0, Reserved |-> 0, Tag |-> f.Tag,
                  Ts_ns |-> f.Ts_ns, Len |-> Len(f.Payload)]
        byte(i) == LET at == {k \in DOMAIN Fields : off[k] < i /\ i <= off[k] + Size[Fields[k]]}
                   IN  IF at = {} THEN Pad
                       ELSE LET k == CHOOSE k \in at : TRUE IN <<value[Fields[k]], i - off[k]>>
    IN  [i \in 1..HeaderSize(TRUE) |-> byte(i)] \o f.Payload

\* A file into which frames have been recorded.
Recorded(frames) == FileHeader \o FlattenSeq([k \in DOMAIN frames |-> Record(frames[k])])

\* What a record that begins after byte from holds, and where it ends.
Field(file, from, name) ==
    LET k == CHOOSE k \in DOMAIN Fields : Fields[k] = name
    IN  file[from + Offset(TRUE)[k] + 1][1]
End(file, from) == from + HeaderSize(TRUE) + Field(file, from, "Len")

\* Replayer::Open, and Next until it fails: in a file that ends within its header, or
\* within the record it reads, a header or a payload.
Replayed(file) ==
    LET opens == Len(file) >= 16 /\ SubSeq(file, 1, 16) = FileHeader
        whole(from) == from + HeaderSize(TRUE) <= Len(file) /\ End(file, from) <= Len(file)
        \* Where the stream is after k calls of Next: 0 once one has failed.
        at[k \in 0..Len(file)] ==
            IF k = 0 THEN IF opens THEN 16 ELSE 0
            ELSE IF at[k - 1] # 0 /\ whole(at[k - 1]) THEN End(file, at[k - 1]) ELSE 0
        read(from) == [Proto |-> Field(file, from, "Proto"), Tag |-> Field(file, from, "Tag"),
                       Ts_ns |-> Field(file, from, "Ts_ns"),
                       Payload |-> SubSeq(file, from + HeaderSize(TRUE) + 1, End(file, from))]
    IN  [k \in {k \in 1..Len(file) : at[k] # 0} |-> read(at[k - 1])]

\* A recording that ends anywhere replays as the frames whose records are whole in it.
Whole(frames, cut) ==
    {k \in 0..Len(frames) : k = 0 \/ Len(Recorded(SubSeq(frames, 1, k))) <= cut}
CutReplaysWhole(frames) ==
    \A cut \in 0..Len(Recorded(frames)) :
        \E k \in Whole(frames, cut) :
            /\ \A j \in Whole(frames, cut) : j <= k
            /\ Replayed(SubSeq(Recorded(frames), 1, cut)) = SubSeq(frames, 1, k)
=============================================================================
