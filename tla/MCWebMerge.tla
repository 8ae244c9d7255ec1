----------------------------- MODULE MCWebMerge -----------------------------
(* WebMerge with two branches, so that one changes while a dialogue about it *)
(* and the other is open.                                                    *)
EXTENDS WebMerge

\* Bounds: files are edited while there are at most two revisions; a merge is
\* of two different branches; the last revision is made by a dialogue; one
\* revision at most cannot be rendered, the second or the last; once a
\* dialogue has saved over something newer, only what moves heads goes on.
WebBounds ==
  /\ unrenderable' \in {unrenderable, {2}, {MaxRevs}}
  /\ edited' \subseteq edited \/ Len(nodes) <= 2
  /\ dialogues' # dialogues => dialogues'[Len(dialogues')].target # dialogues'[Len(dialogues')].source
  /\ Len(nodes') = MaxRevs /\ Len(nodes) < MaxRevs => dialogues' # dialogues
  /\ stale => heads' # heads

\* A dialogue that has nothing more to do: a sync that is saved, a merge that
\* its branches do not allow, a page that cannot be reached.
Over(i) ==
  LET d == dialogues[i]
  IN  \/ d.kind = "sync" /\ d.state = "saved"
      \/ d.kind = "merge" /\ ~Registered(i)
      \/ /\ d.kind = "merge" /\ d.state = "running"
         /\ \/ ~({d.target, d.source} \subseteq DOMAIN d.heads)
            \/ d.heads[d.source] \in Ancestors(nodes, d.heads[d.target])

\* Of a .schema file nothing is used while its branch is deleted or has a
\* head that cannot be rendered but that it is there, and by what moves heads
\* nothing at all.
FileUsed(b) ==
  IF stale THEN <<>>
  ELSE IF b \in DOMAIN heads /\ heads[b] \notin unrenderable
  THEN <<rendered[b], b \in edited>>
  ELSE <<rendered[b] # NoRev>>

\* The heads of a dialogue that is over are used by nothing.
WebView ==
  <<nodes, heads, current, faults, stale, [b \in Branch |-> FileUsed(b)],
    [i \in DOMAIN dialogues |->
       IF Over(i) THEN [dialogues[i] EXCEPT !.heads = <<>>, !.state = "saved"] ELSE dialogues[i]]>>
=============================================================================
