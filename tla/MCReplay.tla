------------------------------ MODULE MCReplay ------------------------------
(* Small instances of Replay for TLC; the bounds are in the .cfg files.     *)
EXTENDS Replay

AsRecordedOrSlower == {<<1, 1>>, <<2, 1>>}
Faster == {<<1, 2>>}

\* The instances stay within the range that the theorems about replay times suppose.
ASSUME TimesFit == NoOverflow

\* A VBUSCAP file cut short anywhere, as by the end of a recording daemon, replays as the
\* frames whose records are whole in it, for every recording of at most two small frames.
CapFile == INSTANCE VbusCap
SmallFrames == {[Proto |-> 1, Tag |-> 7, Ts_ns |-> 5, Payload |-> p] : p \in {<<>>, <<8, 9>>}}
Recordings == UNION {[1..k -> SmallFrames] : k \in 0..2}
ASSUME CutFileReplaysWhole ==
    \A frames \in Recordings : CapFile!CutReplaysWhole(frames)

\* A reader of packed headers takes the upper half of the time stamp for the length.
ASSUME PackedLengthIsInTime ==
    LET len(aligned) == CapFile!Offset(aligned)[6]
        time == CapFile!Offset(TRUE)[5]
    IN  len(FALSE) = time + 4 /\ CapFile!HeaderSize(FALSE) = len(FALSE) + 4
=============================================================================
