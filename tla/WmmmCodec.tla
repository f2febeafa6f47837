----------------------------- MODULE WmmmCodec -----------------------------
(***************************************************************************)
(* The WMMM codec (src/wmmm.cpp): the payload of an AUP frame is a message *)
(* identifier, three reserved bytes and a payload of whatever length is    *)
(* left.  Neither direction keeps state.  An optional frame is <<>> or     *)
(* <<frame>>.                                                              *)
(***************************************************************************)
EXTENDS Naturals, Sequences

HeaderSize == 4

\* The frames over a set of bytes.
FrameOver(B) == [msg_id : B, reserved : B \X B \X B, payload : Seq(B)]

WmmmDecode(data) ==
  IF Len(data) < HeaderSize THEN <<>>
  ELSE << [msg_id   |-> data[1],
           reserved |-> <<data[2], data[3], data[4]>>,
           payload  |-> SubSeq(data, HeaderSize + 1, Len(data))] >>

WmmmEncode(frame) == <<frame.msg_id>> \o frame.reserved \o frame.payload
=============================================================================
