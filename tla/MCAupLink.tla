------------------------------ MODULE MCAupLink ------------------------------
(***************************************************************************)
(* Frames for AupLink over the alphabet {0, M1 = 1, M2 = 2}.               *)
(***************************************************************************)
EXTENDS AupLink

F(checksum, command, payload) ==
  [checksum |-> checksum, flag |-> 0, type |-> 0, command |-> command,
   length |-> Len(payload), payload |-> payload]

\* An empty frame, two that end in MAGIC1, so that the decoder, when it cuts one
\* of them short, sees MAGIC1 MAGIC1 MAGIC2, and two that contain the start marker,
\* in the payload and across header fields.
MCFrames == {F(0, 0, <<>>), F(2, 0, <<1>>), F(0, 2, <<0, 1>>),
             F(2, 0, <<1, 2>>), F(1, 1, <<2, 1, 2>>)}
=============================================================================
