---- MODULE MCResponseCache ----
\* Two readers and two writers: a late fill can overwrite the entry of another
\* reader, behind the deletions of two writes.  One writer makes any write the
\* followed body shows; the other deletes the post, behind which the first may be
\* refused, or an edge, or writes to the list of users or the notifications, so
\* that there is one for every key.
EXTENDS ResponseCache

CONSTANT Partner

Partners == {"deletePost", "removeFollower", "register", "markAllRead"}

PairedInit == Init /\ route[Partner] \in Partners
PairedFairSpec ==
  /\ PairedInit /\ [][Next]_vars
  /\ (\A r \in Reader : WF_vars(Step(r)))
  /\ WF_vars(Expire)
====
