----------------------------- MODULE MCPipeOwner -----------------------------
\* PipeOwner with the four processes that the check tells apart.
EXTENDS PipeOwner

MCKinds ==
  {[user |-> "owner", level |-> 1], [user |-> "owner", level |-> 0],
   [user |-> "system", level |-> 1], [user |-> "other", level |-> 1]}
=============================================================================
