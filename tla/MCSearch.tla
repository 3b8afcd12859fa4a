------------------------------ MODULE MCSearch ------------------------------
(* Three documents at most.  A page of two results takes two batches of    *)
(* one, or one of two and the beginning of the next.                       *)
EXTENDS Search

Doc(t, r) == [text |-> t, rank |-> r]
MCIndexed ==
  {[l \in Links |-> Absent],
   <<Doc("words", 0), Doc("phrase", 1), Absent>>,
   <<Doc("words", 1), Doc("phrase", 0), Doc("words", 1)>>,
   <<Doc("phrase", 1), Doc("phrase", 0), Doc("phrase", 2)>>}
=============================================================================
