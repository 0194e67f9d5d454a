----------------------------- MODULE MCPrograms -----------------------------
(***************************************************************************)
(* Bounded instances of the programs that run alone.                       *)
(***************************************************************************)
EXTENDS Programs

CONSTANTS u1, u2, u3

MCUsers == {u1, u2}
MCRepliers == {u1, u2, u3}
MCLatencies == {1, 2}
MCHeapSizes == {1, 2, 3}

(* Feeds of up to five messages, and one that breaks off.                  *)
Fates == {"tweet", "other"}
MCFeeds == UNION {[1..n -> Fates] : n \in 0..5} \cup {<<"tweet", "unread">>}

(* Folders of two or three queries, and one whose replies are all over     *)
(* each other in a file.                                                   *)
Asks(parts, suffix, reply_) == [parts |-> parts, suffix |-> suffix, reply |-> reply_]
MCFolders ==
  LET good == {Asks(2, s, r) : s \in {"1", "2"}, r \in {<<1>>, <<2, 2>>}}
      odd == {Asks(1, "1", <<1>>), Asks(3, "2", Nothing), Asks(2, "3", <<1>>)}
  IN good \X good \X good \cup good \X odd
       \cup {<<Asks(2, "1", <<1>>), Asks(2, "1", <<2, 2>>), Asks(2, "1", <<3, 3, 3>>)>>}
Earlier == [s \in {"1", "2", "3"} |-> CASE s = "1" -> <<1>> [] s = "2" -> <<2, 2>> [] OTHER -> Nothing]
=============================================================================
