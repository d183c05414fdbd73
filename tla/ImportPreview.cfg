\* Purchases with a thousands separator go through the two requests.
SPECIFICATION Spec
CONSTANTS
    Year = 2
    WashDays = 1
    MaxLines = 2
    Line <- LargeLines
    ApiRow = {}
PROPERTY ConfirmBooksThePreview
CHECK_DEADLOCK FALSE
