-------------------------------- MODULE Posts --------------------------------
(* The posts and their users, of whose votes (Votes) and views (PostViews) *)
(* a row of posts keeps the numbers.                                       *)
CONSTANTS Post, User
=============================================================================
