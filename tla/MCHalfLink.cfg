SPECIFICATION Spec
CONSTANTS
    Bitmaps = {vide, a}
    Vide = vide
    Rafraichir = 1
    Delai = 4
    Repos = 1
    Repeats = 2
    Seuil = 2
    MaxManques = 3
    VerrouTenu = FALSE
PROPERTY HoldSurvives
PROPERTY NoResurrection
PROPERTY EventuallyHeard
PROPERTY QuietAtRest
