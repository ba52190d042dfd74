----------------------------- MODULE MCObjStore -----------------------------
(* A small instance of ObjStore: two objects, bytes that tell where they   *)
(* come from, requests at, over and past both ends of a file.              *)
EXTENDS ObjStore

CONSTANTS o1, o2

MCRequests ==
  [op : {"Write"}, id : {o1}, offset : {-2, -1, 0, 2}, data : {<<"a", "b">>, <<"c">>, <<>>}]
    \cup [op : {"Write"}, id : {o2}, offset : {-1}, data : {<<"d", "e", "f">>}]
    \cup [op : {"Read"}, id : {o1}, offset : {-3, 0, 1}, len : {0, 2, 9}]
    \cup [op : {"Hash"}, id : {o1, o2}, offset : {-4, 0, 1}, len : {0, 1, 3}]
    \cup [op : {"Delete"}, id : {o1}]
=============================================================================
