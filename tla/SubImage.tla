------------------------------ MODULE SubImage ------------------------------
(***************************************************************************)
(* The part of the picture that the simulated robot looks at               *)
(* (CreateCVSubimage): a square of dim pixels whose corner is pushed back  *)
(* into the picture.  The window that the corner is found with is the one  *)
(* of the output, whatever dim is.                                         *)
(***************************************************************************)
EXTENDS Integers

\* std::clamp, which asks for lo <= hi.
Clamp(v, lo, hi) == IF v < lo THEN lo ELSE IF hi < v THEN hi ELSE v

\* The corner is kept inside with the size of the output, not of the square.
SubImageByWindow(width, height, center_x, center_y, output_dim) ==
  LET half == (height \div 2) \div 2
      dim == Clamp(output_dim, 1, height)
  IN  [x |-> Clamp(center_x - half, 0, width - (2 * half)),
       y |-> Clamp(center_y - half, 0, height - (2 * half)),
       dim |-> dim]

SubImage(width, height, center_x, center_y, output_dim) ==
  LET half == (height \div 2) \div 2
      dim == Clamp(output_dim, 1, height)
  IN  [x |-> Clamp(center_x - half, 0, width - dim),
       y |-> Clamp(center_y - half, 0, height - dim),
       dim |-> dim]

\* The side of the window that every square is resized to.
Window(height) == height \div 2

\* A square of at least one pixel that lies in the picture.
Inside(crop, width, height) ==
  /\ crop.dim >= 1
  /\ 0 <= crop.x /\ crop.x + crop.dim <= width
  /\ 0 <= crop.y /\ crop.y + crop.dim <= height
=============================================================================
