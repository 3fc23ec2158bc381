----------------------------- MODULE MCMcxLink -----------------------------
(* McxLink with few byte values: the framing bytes also occur as low bytes  *)
(* of a coordinate (x = 426, x = 255 and y = 255 are in the picture).       *)
EXTENDS McxLink

MCByte == {0, 1, 9, BUFFER_HEAD, BUFFER_TAIL}

Frame(f, xh, xl, yl) == [flag |-> f, xh |-> xh, xl |-> xl, yh |-> 0, yl |-> yl]

MCPayloads == {
  Frame(0, 0, 0, 0),               \* nothing seen
  Frame(1, 1, BUFFER_HEAD, 9),     \* a box, x = 426
  Frame(1, 0, 9, BUFFER_TAIL),     \* a box, y = 255
  Frame(1, 0, BUFFER_TAIL, 9),     \* a box, x = 255
  Frame(0, 0, BUFFER_TAIL, 0)      \* nothing seen, a tail in the payload
  }
=============================================================================
