------------------------------ MODULE MCNewsroom ------------------------------
\* Newsroom for TLC: the users and stories are the model values of Newsroom.cfg.
EXTENDS Newsroom
=============================================================================
