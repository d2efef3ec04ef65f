--------------------------- MODULE MCBotTransport ---------------------------
(***************************************************************************)
(* Instances of BotTransport for TLC: a packet is two units, the buffer    *)
(* two packets, so that a transfer of five or six units needs two buffers  *)
(* and ends with a short or with a full packet.                            *)
(***************************************************************************)
EXTENDS BotTransport

Cmd(op, in, hlen, alen) == [op |-> op, in |-> in, hlen |-> hlen, alen |-> alen]

\* Reads and writes in every relation of announced and wanted length
DataCommands == {
  Cmd("read", TRUE, 6, 6),     \* two buffers, full last packet
  Cmd("read", TRUE, 6, 4),     \* ends on a packet boundary before hlen: ZLP
  Cmd("read", TRUE, 3, 4),     \* the host wants less than the command
  Cmd("read", FALSE, 2, 2),    \* wrong direction: phase error
  Cmd("reply", TRUE, 6, 3),    \* short reply
  Cmd("reply", FALSE, 2, 3),   \* reply asked for with data out
  Cmd("write", FALSE, 6, 6),   \* two buffers
  Cmd("write", TRUE, 4, 4),    \* wrong direction: phase error, ZLP
  Cmd("ready", TRUE, 0, 0)}

\* BLANK, what may be sent while it runs, and eject
ControlCommands == {
  Cmd("blank", FALSE, 0, 0), Cmd("blankImmed", FALSE, 0, 0),
  Cmd("sense", TRUE, 2, 1), Cmd("ready", FALSE, 0, 0), Cmd("cancel", FALSE, 0, 0),
  Cmd("read", TRUE, 2, 2), Cmd("eject", FALSE, 0, 0)}

\* Eject after a command that leaves a CSW to acknowledge
EjectCommands == {Cmd("eject", FALSE, 0, 0), Cmd("read", TRUE, 2, 2)}

\* A reply of two packets during an immediate blank operation
ReplyCommands == {Cmd("blankImmed", FALSE, 0, 0), Cmd("reply", TRUE, 4, 4)}

=============================================================================
