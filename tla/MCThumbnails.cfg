CONSTANTS
    Sizes <- YouTubeSizes
    MaxLength = 4
    Unset = Unset
    NoThumb = NoThumb
SPECIFICATION Spec
INVARIANTS ThumbnailTypeOK ChosenFits LargestIsChosen
CHECK_DEADLOCK FALSE
