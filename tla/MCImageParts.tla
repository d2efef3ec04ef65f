---------------------------- MODULE MCImageParts ----------------------------
(***************************************************************************)
(* Instance of ImageParts for TLC: parts of two units, so that an image of *)
(* three parts has six, and requests that lie inside a part, cross one or  *)
(* two borders, and end behind the image.                                  *)
(***************************************************************************)
EXTENDS ImageParts

Request(kind, at, len) == [kind |-> kind, at |-> at, len |-> len, value |-> "new"]

SomeRequests == {
  Request("read", 0, 1), Request("read", 1, 4), Request("read", 3, 2),
  Request("write", 1, 1), Request("write", 1, 2), Request("write", 4, 2)}
=============================================================================
