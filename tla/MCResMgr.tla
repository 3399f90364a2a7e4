------------------------------ MODULE MCResMgr ------------------------------
(***************************************************************************)
(* A model of ResMgr for TLC: the first and the last stage (the read stage *)
(* has the io_write of the one and the io_read of the other) with two      *)
(* clients that open the device for reading or for writing, read more than *)
(* there is, ask for something special, and write something or nothing.    *)
(***************************************************************************)
EXTENDS ResMgr

IO(type, n, special) == [type |-> type, nbytes |-> n, xtype |-> special]

MCRequests ==
  {[type |-> "open", mode |-> {t}] : t \in {"read", "write"}} \cup
  {IO("read", 2, FALSE), IO("read", 2, TRUE),
   IO("write", 0, FALSE), IO("write", 1, FALSE)}
=============================================================================
