--------------------------- MODULE MCMetadataStore ---------------------------
(***************************************************************************)
(* Instance of MetadataStore for TLC: an .img and an .iso, and mount       *)
(* options that differ in everything that decides who may save.            *)
(***************************************************************************)
EXTENDS MetadataStore

Opt(ro, optical, exit) == [readOnly |-> ro, optical |-> optical, exit |-> exit]

DefaultOptions == Opt(FALSE, FALSE, "disk")
SomeOptions == {DefaultOptions, Opt(FALSE, TRUE, "disk")}
=============================================================================
