--------------------------- MODULE MCThumbnails ---------------------------
EXTENDS Thumbnails
=============================================================================
