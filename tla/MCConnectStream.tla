--------------------------- MODULE MCConnectStream ---------------------------
(* Small instances of ConnectStream.                                       *)
EXTENDS ConnectStream

MCByte == 0..3

Msg(id, entity, player, data) ==
  [id |-> id, entity |-> entity, player |-> player, data |-> data]

\* Frames of 5 and 9 bytes, and one of 5 with an id that is no MsgId.
MCMessage == {Msg(1, 0, 0, <<>>), Msg(2, 1, 3, <<3, 0>>), Msg(3, 0, 0, <<>>)}

\* NetworkListen makes its ConnectObjs without tags; packets for account b
\* pass until the connection is tagged with account a.
KeyOf(account) == [Account |-> account]
MCKey == {KeyOf("b")}
MCInitKey == {<<>>}
MCListenKey == {KeyOf("a")}
=============================================================================
