---------------------------- MODULE MCWebControl ----------------------------
\* WebControl for TLC: a page with a joystick and a page with a form, each
\* with a connection, or one of them with two.
EXTENDS WebControl

CONSTANTS p1, p2
=============================================================================
