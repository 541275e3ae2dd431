------------------------------ MODULE InodesMC -------------------------------
(* A file that has a name in "/" and may get one in "/a", while "/a" is made *)
(* and removed, and processes work in it.                                    *)
EXTENDS Inodes, TLC

PathTo(a, n) == [abs |-> a, names |-> n]

MCCalls ==
  {[op |-> "creat", path |-> PathTo(TRUE, <<"b">>)],
   [op |-> "open", path |-> PathTo(TRUE, <<"b">>)],
   [op |-> "unlink", path |-> PathTo(TRUE, <<"b">>)],
   [op |-> "link", path |-> PathTo(TRUE, <<"b">>), new |-> PathTo(TRUE, <<"a", "b">>)],
   [op |-> "unlink", path |-> PathTo(TRUE, <<"a", "b">>)],
   [op |-> "mkdir", path |-> PathTo(FALSE, <<"a">>)],
   [op |-> "chdir", path |-> PathTo(FALSE, <<"a">>)],
   [op |-> "unlink", path |-> PathTo(TRUE, <<"a">>)],
   [op |-> "chdir", path |-> PathTo(TRUE, <<>>)],
   [op |-> "link", path |-> PathTo(TRUE, <<"b">>), new |-> PathTo(TRUE, <<>>)]}

Symmetric == Permutations(Proc)
=============================================================================
